---------------------------- MODULE Spec2Model ----------------------------
(***************************************************************************)
(* A model of mcp-document-server's chunk-and-retrieve core:               *)
(*   - chunker.chunk_text, as a state machine over its cursor loop;        *)
(*   - chunker.chunk_by_pages, the loop over pages around chunk_text;      *)
(*   - search.DocumentIndex, three co-maintained ordered dicts, and its    *)
(*     _cosine_similarity;                                                 *)
(*   - parsers.DocumentParserRegistry.parse, the choice of a parser;       *)
(*   - server.DocumentAnalysisServer, its parsed-document cache and tool   *)
(*     handlers, and main(), the request loop over the lines of stdin.     *)
(* Offsets are 0-based as in the Python source; a str is a sequence of     *)
(* one-character strings; a dict is a sequence of [k, v] entries in        *)
(* insertion order with pairwise distinct keys.                            *)
(***************************************************************************)
EXTENDS Integers, Sequences, FiniteSets, TLC

(* ------------------------------ bounds -------------------------------- *)

MaxTextLen == 5

MaxChunkSize == 3

\* The longest chunk list passed to one add_chunks call.
MaxBatch == 2

\* The longest chunk-id list the index holds for one document.
MaxDocChunks == 2

\* The largest top_k passed to search.
MaxTopK == 2

\* The longest page list passed to chunk_by_pages.
MaxPages == 3

\* The largest absolute value of a vector component passed to
\* _cosine_similarity on its own.
MaxComponent == 2

\* The number of lines the server reads from stdin.
MaxLines == 3

\* The number of times a file's content is replaced on disk.
MaxVersion == 2

(* ------------------------- strings (Python str) ----------------------- *)

Chars == {"a", " ", "\n"}

Whitespace == {" ", "\n"}

\* The separators tried: the default "\n", the empty string, a blank, and
\* a two-character separator that ends in whitespace.
Separators == {<<"\n">>, <<>>, <<" ">>, <<"a", " ">>}

ChunkDocIds == {"A"}

Min(a, b) == IF a <= b THEN a ELSE b

SetMax(S) == CHOOSE x \in S : \A y \in S : y <= x

SetMin(S) == CHOOSE x \in S : \A y \in S : x <= y

Texts == UNION {[1..n -> Chars] : n \in 0..MaxTextLen}

\* text[a:b] for 0 <= a, 0 <= b (b is clamped to len(text)).
Slice(s, a, b) == SubSeq(s, a + 1, Min(b, Len(s)))

\* str.strip(): drop leading and trailing whitespace.
Strip(s) ==
    LET keep == {i \in 1..Len(s) : s[i] \notin Whitespace}
    IN  IF keep = {} THEN <<>> ELSE SubSeq(s, SetMin(keep), SetMax(keep))

\* len(s.split()): the number of maximal runs of non-whitespace.
WordCount(s) ==
    Cardinality({i \in 1..Len(s) :
        /\ s[i] \notin Whitespace
        /\ (i = 1 \/ s[i - 1] \in Whitespace)})

\* str.rfind(sub, a, b): the highest i in [a, b - len(sub)] at which sub
\* occurs, -1 when there is none.
RFind(s, sub, a, b) ==
    LET hi  == Min(b, Len(s)) - Len(sub)
        occ == {i \in a..hi : Slice(s, i, i + Len(sub)) = sub}
    IN  IF occ = {} THEN -1 ELSE SetMax(occ)

(* ------------------------------ state --------------------------------- *)

VARIABLES
    text, doc_id, chunk_size, overlap, separator,  \* chunk_text arguments
    pc,                                            \* position in chunk_text
    start, end, index, chunks                      \* chunk_text locals

chunkVars == <<text, doc_id, chunk_size, overlap, separator,
               pc, start, end, index, chunks>>

VARIABLES
    pages, pages_doc_id,   \* chunk_by_pages arguments (with chunk_size
                           \* and overlap, which it hands to chunk_text)
    pages_pc,              \* position in chunk_by_pages
    page_num, all_chunks   \* chunk_by_pages locals

pageVars == <<pages, pages_doc_id, pages_pc, page_num, all_chunks>>

VARIABLES
    cos_a, cos_b,          \* _cosine_similarity arguments
    cos_pc, cos_result     \* its position and what it returned

cosineVars == <<cos_a, cos_b, cos_pc, cos_result>>

VARIABLES
    _chunks, _embeddings, _doc_chunks,   \* DocumentIndex's three dicts
    calls,                               \* each task's call on the index
    running                              \* the task the event loop runs

indexVars == <<_chunks, _embeddings, _doc_chunks>>

VARIABLES
    parse_path,     \* DocumentParserRegistry.parse: its file_path
    parse_exists,   \* whether os.path.exists(file_path)
    parse_pc,       \* "idle", "call", "returned" or "raised"
    parse_result    \* what the call returned or raised

registryVars == <<parse_path, parse_exists, parse_pc, parse_result>>

VARIABLES
    disk,           \* the file system: path -> version of the file, 0 = none
    _parsed_cache,  \* DocumentAnalysisServer._parsed_cache, a dict
    main_pc,        \* main(): "read", a handler's position, or "crashed"
    line_no,        \* main(): how many lines of stdin were read
    line,           \* main(): the line being handled
    request,        \* main(): the local `request`
    stdout,         \* the response lines written so far
    log             \* the handlers and parsers invoked so far

serverVars == <<disk, _parsed_cache, main_pc, line_no, line, request,
                stdout, log>>

shellVars == <<registryVars, serverVars>>

vars == <<chunkVars, pageVars, cosineVars, indexVars, calls, running,
          shellVars>>

(* ------------------------- dicts (Python dict) ------------------------ *)

Keys(d) == {d[i].k : i \in 1..Len(d)}

\* list(d.keys()): the keys in insertion order.
KeyList(d) == [i \in 1..Len(d) |-> d[i].k]

Has(d, key) == key \in Keys(d)

Get(d, key) == d[CHOOSE i \in 1..Len(d) : d[i].k = key].v

\* d[key] = value: an existing key keeps its place, a new one goes last.
Put(d, key, value) ==
    IF Has(d, key)
    THEN [i \in 1..Len(d) |->
             IF d[i].k = key THEN [k |-> key, v |-> value] ELSE d[i]]
    ELSE Append(d, [k |-> key, v |-> value])

\* d.pop(key, None) and del d[key].
Pop(d, key) == SelectSeq(d, LAMBDA e : e.k # key)

(* -------------------------- search.DocumentIndex ---------------------- *)

Tasks == {1, 2}

ChunkIds == {"c1", "c2", "c3"}

\* The doc_id values chunks are added under: two ordinary ones and the
\* empty string, which Chunk.doc_id (a str) admits as well.
DocIds == {"A", "B", ""}

\* doc_id=None.
NoDoc == "None"

\* What the embedder returns for one text.
Vectors == {<<1, 0>>, <<0, 1>>}

\* The chunks handed to add_chunks.  The index takes the Chunk objects as
\* they come: two ids under one document, and one of the ids under a
\* second document as well (chunk_by_pages("d") derives its ids from
\* "d_p0", ..., the ids chunk_text("d_p0") gives its own chunks), and a
\* chunk of the document whose doc_id is the empty string.
IndexChunks ==
    {[id |-> "c1", doc_id |-> "A", text |-> "t1"],
     [id |-> "c2", doc_id |-> "A", text |-> "t2"],
     [id |-> "c1", doc_id |-> "B", text |-> "t3"],
     [id |-> "c3", doc_id |-> "",  text |-> "t4"]}

\* The chunk lists of at most MaxBatch chunks of the documents docs.
BatchesOf(docs) ==
    UNION {[1..n -> {c \in IndexChunks : c.doc_id \in docs}] :
              n \in 0..MaxBatch}

Batches == BatchesOf({"A", "B"})

TopKs == 0..MaxTopK

\* The query text of a search.
Query == "q"

\* A task's call on the index: where it stands (pc), its arguments and
\* locals, and what it returned or raised.  before is the index as the
\* call found it, kept while the call runs; observed is what total_chunks
\* and list_documents() gave just before a remove_document call; request
\* is what the call passed to _embed and embed_calls how many times it
\* called _embed.
NoCall ==
    [pc |-> "idle", op |-> "none", chunks |-> <<>>, embeddings |-> <<>>,
     i |-> 0, doc_id |-> NoDoc, top_k |-> 0, query_embedding |-> <<>>,
     result |-> <<>>, error |-> "none", before |-> <<>>, observed |-> <<>>,
     request |-> <<>>, embed_calls |-> 0]

\* Line 52: texts = [c.text for c in chunks]
ChunkTexts(batch) == [n \in 1..Len(batch) |-> batch[n].text]

\* Line 53: the input_type add_chunks passes to _embed.
add_input_type == "search_document"

\* A search that embeds its query as a stored document.
search_input_type_of_add == "search_document"

\* Line 82: the input_type search passes to _embed.
search_input_type == "search_query"

\* Line 127: len(self._chunks).
total_chunks == Len(_chunks)

\* Lines 120-123: one entry per document, in dict order.
list_documents ==
    [n \in 1..Len(_doc_chunks) |->
        [doc_id      |-> _doc_chunks[n].k,
         chunk_count |-> Len(_doc_chunks[n].v)]]

\* Lines 144-149.  The float dot / (norm_a * norm_b) is kept as the exact
\* fraction sign(dot) * dot^2 / (norm_a^2 * norm_b^2), which orders as the
\* cosine does; 0/1 when a norm is zero.
Dot(a, b) == a[1] * b[1] + a[2] * b[2]

\* A similarity that leaves the division by the norms out.
_cosine_similarity_dot_only(a, b) == [num |-> Dot(a, b), den |-> 1]

\* A similarity that guards the division against a zero norm_a only.
_cosine_similarity_guards_a_only(a, b) ==
    LET dot == Dot(a, b)
        na2 == Dot(a, a)
        nb2 == Dot(b, b)
    IN  IF na2 = 0 THEN [num |-> 0, den |-> 1]
        ELSE [num |-> IF dot < 0 THEN -(dot * dot) ELSE dot * dot,
              den |-> na2 * nb2]

_cosine_similarity(a, b) ==
    LET dot == Dot(a, b)
        na2 == Dot(a, a)
        nb2 == Dot(b, b)
    IN  IF na2 = 0 \/ nb2 = 0 THEN [num |-> 0, den |-> 1]
        ELSE [num |-> IF dot < 0 THEN -(dot * dot) ELSE dot * dot,
              den |-> na2 * nb2]

ScoreLess(x, y) == x.num * y.den < y.num * x.den

\* A sort that puts a result before the results of equal score that were
\* met before it.
RECURSIVE SortTiesReversed(_)
SortTiesReversed(rs) ==
    IF rs = <<>> THEN <<>>
    ELSE LET srt == SortTiesReversed(SubSeq(rs, 1, Len(rs) - 1))
             r   == rs[Len(rs)]
             n   == Cardinality({j \in 1..Len(srt) :
                        ScoreLess(r.score, srt[j].score)})
         IN  SubSeq(srt, 1, n) \o <<r>> \o SubSeq(srt, n + 1, Len(srt))

\* Line 106: list.sort(key=score, reverse=True) is stable: a result goes
\* after every result already placed whose score is not lower.
RECURSIVE SortByScoreDesc(_)
SortByScoreDesc(rs) ==
    IF rs = <<>> THEN <<>>
    ELSE LET srt == SortByScoreDesc(SubSeq(rs, 1, Len(rs) - 1))
             r   == rs[Len(rs)]
             n   == Cardinality({j \in 1..Len(srt) :
                        ~ScoreLess(srt[j].score, r.score)})
         IN  SubSeq(srt, 1, n) \o <<r>> \o SubSeq(srt, n + 1, Len(srt))

\* seq[:k]
Take(seq, k) ==
    IF k >= 0 THEN SubSeq(seq, 1, Min(k, Len(seq)))
    ELSE SubSeq(seq, 1, Len(seq) + k)

\* Line 85: "if doc_id" is false for None and for the empty string.
Truthy(d) == d # NoDoc /\ d # ""

\* A search that takes an unknown doc_id for an empty document.
CandidateIdsUnknownIsEmpty(d) ==
    IF d = NoDoc THEN KeyList(_chunks)
    ELSE IF Has(_doc_chunks, d) THEN Get(_doc_chunks, d)
    ELSE <<>>

\* Lines 85-88.
CandidateIds(d) ==
    IF Truthy(d) /\ Has(_doc_chunks, d) THEN Get(_doc_chunks, d)
    ELSE KeyList(_chunks)

\* Lines 90-107.
SearchResults(query_embedding, d, top_k) ==
    LET candidate_ids == CandidateIds(d)
        scored == SelectSeq(candidate_ids,
                      LAMBDA chunk_id : Has(_embeddings, chunk_id))
        results == [n \in 1..Len(scored) |->
                      [chunk |-> Get(_chunks, scored[n]),
                       score |-> _cosine_similarity(query_embedding,
                                     Get(_embeddings, scored[n]))]]
    IN  Take(SortByScoreDesc(results), top_k)

Snapshot == <<_chunks, _embeddings, _doc_chunks>>

Observation == [total_chunks |-> total_chunks, documents |-> list_documents]

\* The event loop starts a call of task t when no task is running and t
\* has none under way.
Free(t) == running = 0 /\ calls[t].pc \in {"idle", "done"}

\* The chunk-id lists stay within MaxDocChunks: an add_chunks call starts
\* only when its appends, with those of the calls under way, fit.
ListLength(d) ==
    IF Has(_doc_chunks, d) THEN Len(Get(_doc_chunks, d)) ELSE 0

Appends(batch, first, d) ==
    Cardinality({n \in first..Len(batch) : batch[n].doc_id = d})

Pending(t, d) ==
    IF calls[t].op = "add_chunks" /\ calls[t].pc # "done"
    THEN Appends(calls[t].chunks, IF calls[t].i = 0 THEN 1 ELSE calls[t].i, d)
    ELSE 0

RECURSIVE SumPending(_, _)
SumPending(ts, d) ==
    IF ts = {} THEN 0
    ELSE LET t == CHOOSE x \in ts : TRUE
         IN  Pending(t, d) + SumPending(ts \ {t}, d)

Fits(batch) ==
    \A d \in DocIds :
        ListLength(d) + SumPending(Tasks, d) + Appends(batch, 1, d)
            <= MaxDocChunks

\* add_chunks that stores the chunks before it embeds their texts.
add_chunks_stores_first(t, batch) ==
    /\ Free(t)
    /\ Fits(batch)
    /\ batch # <<>>
    /\ _chunks' = Put(_chunks, batch[1].id, batch[1])
    /\ calls' = [calls EXCEPT ![t] =
          [NoCall EXCEPT !.pc = "add_embed", !.op = "add_chunks",
                         !.chunks = batch, !.before = Snapshot,
                         !.request = [texts |-> ChunkTexts(batch),
                                      input_type |-> add_input_type],
                         !.embed_calls = 1]]
    /\ UNCHANGED <<_embeddings, _doc_chunks, running,
                   chunkVars, pageVars, cosineVars, shellVars>>

\* add_chunks, lines 49-53: the empty list returns 0; otherwise the call
\* waits for the embedder.
add_chunks_call(t, batch) ==
    /\ Free(t)
    /\ Fits(batch)
    /\ calls' = [calls EXCEPT ![t] =
          IF batch = <<>>
          THEN [NoCall EXCEPT !.pc = "done", !.op = "add_chunks",
                              !.result = <<0>>]
          ELSE [NoCall EXCEPT !.pc = "add_embed", !.op = "add_chunks",
                              !.chunks = batch, !.before = Snapshot,
                              !.request = [texts |-> ChunkTexts(batch),
                                           input_type |-> add_input_type],
                              !.embed_calls = 1]]
    /\ UNCHANGED <<indexVars, running,
                   chunkVars, pageVars, cosineVars, shellVars>>

\* _embed, lines 133-139, answering add_chunks with one vector per text:
\* the task runs on into the loop of lines 55-61.
_embed_returns_add(t, embeddings) ==
    /\ running = 0
    /\ calls[t].pc = "add_embed"
    /\ Len(embeddings) = Len(calls[t].chunks)
    /\ calls' = [calls EXCEPT ![t].pc = "add_56", ![t].i = 1,
                              ![t].embeddings = embeddings]
    /\ running' = t
    /\ UNCHANGED <<indexVars, chunkVars, pageVars, cosineVars, shellVars>>

\* _embed raising (no client, provider unreachable): the await of line 53
\* or line 82 raises in turn and the call ends.
_embed_raises(t) ==
    /\ running = 0
    /\ calls[t].pc \in {"add_embed", "search_embed"}
    /\ calls' = [calls EXCEPT ![t] =
          [NoCall EXCEPT !.pc = "done", !.op = calls[t].op,
                         !.error = "EmbeddingFailure",
                         !.embed_calls = calls[t].embed_calls]]
    /\ UNCHANGED <<indexVars, running,
                   chunkVars, pageVars, cosineVars, shellVars>>

\* Line 56 followed by an await: the task gives the event loop up with
\* the chunk stored and its embedding not yet.
add_chunks_56_awaits(t) ==
    /\ running = t
    /\ calls[t].pc = "add_56"
    /\ LET chunk == calls[t].chunks[calls[t].i]
       IN  _chunks' = Put(_chunks, chunk.id, chunk)
    /\ calls' = [calls EXCEPT ![t].pc = "add_57"]
    /\ running' = 0
    /\ UNCHANGED <<_embeddings, _doc_chunks,
                   chunkVars, pageVars, cosineVars, shellVars>>

\* Line 56: self._chunks[chunk.id] = chunk
add_chunks_56(t) ==
    /\ running = t
    /\ calls[t].pc = "add_56"
    /\ LET chunk == calls[t].chunks[calls[t].i]
       IN  _chunks' = Put(_chunks, chunk.id, chunk)
    /\ calls' = [calls EXCEPT ![t].pc = "add_57"]
    /\ UNCHANGED <<_embeddings, _doc_chunks, running,
                   chunkVars, pageVars, cosineVars, shellVars>>

\* Line 57: self._embeddings[chunk.id] = embedding
add_chunks_57(t) ==
    /\ running = t
    /\ calls[t].pc = "add_57"
    /\ LET chunk == calls[t].chunks[calls[t].i]
       IN  _embeddings' =
               Put(_embeddings, chunk.id, calls[t].embeddings[calls[t].i])
    /\ calls' = [calls EXCEPT ![t].pc = "add_59"]
    /\ UNCHANGED <<_chunks, _doc_chunks, running,
                   chunkVars, pageVars, cosineVars, shellVars>>

\* Lines 59-61: append the id to its document's list, made when missing.
RegisterChunk(doc_chunks, chunk) ==
    LET ids == IF Has(doc_chunks, chunk.doc_id)
               THEN Get(doc_chunks, chunk.doc_id) ELSE <<>>
    IN  Put(doc_chunks, chunk.doc_id, Append(ids, chunk.id))

\* Lines 59-63: the last statements of the loop body, then the next chunk
\* or the return of len(chunks).
add_chunks_59(t) ==
    /\ running = t
    /\ calls[t].pc = "add_59"
    /\ _doc_chunks' = RegisterChunk(_doc_chunks, calls[t].chunks[calls[t].i])
    /\ IF calls[t].i < Len(calls[t].chunks)
       THEN /\ calls' = [calls EXCEPT ![t].pc = "add_56",
                                      ![t].i = calls[t].i + 1]
            /\ UNCHANGED running
       ELSE /\ calls' = [calls EXCEPT ![t] =
                  [NoCall EXCEPT !.pc = "done", !.op = "add_chunks",
                                 !.result = <<Len(calls[t].chunks)>>,
                                 !.embed_calls = calls[t].embed_calls]]
            /\ running' = 0
    /\ UNCHANGED <<_chunks, _embeddings,
                   chunkVars, pageVars, cosineVars, shellVars>>

\* search, line 82: the call waits for the embedder.
search_call(t, d, top_k) ==
    /\ Free(t)
    /\ calls' = [calls EXCEPT ![t] =
          [NoCall EXCEPT !.pc = "search_embed", !.op = "search",
                         !.doc_id = d, !.top_k = top_k,
                         !.before = Snapshot,
                         !.request = [texts |-> <<Query>>,
                                      input_type |-> search_input_type],
                         !.embed_calls = 1]]
    /\ UNCHANGED <<indexVars, running,
                   chunkVars, pageVars, cosineVars, shellVars>>

\* _embed answering search: lines 84-107 run to the return.
_embed_returns_search(t, query_embedding) ==
    /\ running = 0
    /\ calls[t].pc = "search_embed"
    /\ calls' = [calls EXCEPT ![t] =
          [NoCall EXCEPT !.pc = "done", !.op = "search",
                         !.doc_id = calls[t].doc_id,
                         !.top_k = calls[t].top_k,
                         !.query_embedding = query_embedding,
                         !.result = SearchResults(query_embedding,
                                        calls[t].doc_id, calls[t].top_k),
                         !.embed_calls = calls[t].embed_calls]]
    /\ UNCHANGED <<indexVars, running,
                   chunkVars, pageVars, cosineVars, shellVars>>

\* remove_document, lines 111-113: an unknown doc_id returns at once; a
\* known one enters the loop over its chunk ids.
remove_document_call(t, d) ==
    /\ Free(t)
    /\ IF ~Has(_doc_chunks, d)
       THEN /\ calls' = [calls EXCEPT ![t] =
                  [NoCall EXCEPT !.pc = "done", !.op = "remove_document",
                                 !.doc_id = d, !.observed = Observation]]
            /\ UNCHANGED running
       ELSE /\ calls' = [calls EXCEPT ![t] =
                  [NoCall EXCEPT !.pc = "remove_114",
                                 !.op = "remove_document", !.doc_id = d,
                                 !.i = 1, !.observed = Observation]]
            /\ running' = t
    /\ UNCHANGED <<indexVars, chunkVars, pageVars, cosineVars, shellVars>>

\* Line 114: self._chunks.pop(chunk_id, None)
remove_document_114(t) ==
    /\ running = t
    /\ calls[t].pc = "remove_114"
    /\ LET chunk_id == Get(_doc_chunks, calls[t].doc_id)[calls[t].i]
       IN  _chunks' = Pop(_chunks, chunk_id)
    /\ calls' = [calls EXCEPT ![t].pc = "remove_115"]
    /\ UNCHANGED <<_embeddings, _doc_chunks, running,
                   chunkVars, pageVars, cosineVars, shellVars>>

\* Line 115: self._embeddings.pop(chunk_id, None), then the next id.
remove_document_115(t) ==
    /\ running = t
    /\ calls[t].pc = "remove_115"
    /\ LET ids == Get(_doc_chunks, calls[t].doc_id)
       IN  /\ _embeddings' = Pop(_embeddings, ids[calls[t].i])
           /\ calls' = [calls EXCEPT
                  ![t].pc = IF calls[t].i < Len(ids)
                            THEN "remove_114" ELSE "remove_116",
                  ![t].i = calls[t].i + 1]
    /\ UNCHANGED <<_chunks, _doc_chunks, running,
                   chunkVars, pageVars, cosineVars, shellVars>>

\* Line 116: del self._doc_chunks[doc_id], and the return.
remove_document_116(t) ==
    /\ running = t
    /\ calls[t].pc = "remove_116"
    /\ _doc_chunks' = Pop(_doc_chunks, calls[t].doc_id)
    /\ calls' = [calls EXCEPT ![t] =
          [NoCall EXCEPT !.pc = "done", !.op = "remove_document",
                         !.doc_id = calls[t].doc_id,
                         !.observed = calls[t].observed]]
    /\ running' = 0
    /\ UNCHANGED <<_chunks, _embeddings,
                   chunkVars, pageVars, cosineVars, shellVars>>

\* list_documents(), lines 118-123.
list_documents_call(t) ==
    /\ Free(t)
    /\ calls' = [calls EXCEPT ![t] =
          [NoCall EXCEPT !.pc = "done", !.op = "list_documents",
                         !.result = list_documents]]
    /\ UNCHANGED <<indexVars, running,
                   chunkVars, pageVars, cosineVars, shellVars>>

\* The total_chunks property, lines 125-127.
total_chunks_call(t) ==
    /\ Free(t)
    /\ calls' = [calls EXCEPT ![t] =
          [NoCall EXCEPT !.pc = "done", !.op = "total_chunks",
                         !.result = <<total_chunks>>]]
    /\ UNCHANGED <<indexVars, running,
                   chunkVars, pageVars, cosineVars, shellVars>>

\* Lines 26-31: the three dicts start empty.
IndexInit ==
    /\ _chunks = <<>>
    /\ _embeddings = <<>>
    /\ _doc_chunks = <<>>
    /\ calls = [t \in Tasks |-> NoCall]
    /\ running = 0

\* chunk_text is not running: its variables rest.
ChunkIdle ==
    /\ text = <<>>
    /\ doc_id = "A"
    /\ chunk_size = 1
    /\ overlap = 0
    /\ separator = <<"\n">>
    /\ pc = "returned"
    /\ start = 0
    /\ end = 0
    /\ index = 0
    /\ chunks = <<>>

\* chunk_by_pages is not running: its variables rest.
PagesIdle ==
    /\ pages = <<>>
    /\ pages_doc_id = "A"
    /\ pages_pc = "idle"
    /\ page_num = 0
    /\ all_chunks = <<>>

\* _cosine_similarity is not running on its own: its variables rest.
CosineIdle ==
    /\ cos_a = <<0, 0>>
    /\ cos_b = <<0, 0>>
    /\ cos_pc = "idle"
    /\ cos_result = [num |-> 0, den |-> 1]

\* DocumentParserRegistry.parse is not running on its own.
RegistryIdle ==
    /\ parse_path = <<>>
    /\ parse_exists = FALSE
    /\ parse_pc = "idle"
    /\ parse_result = [outcome |-> "none"]

\* No server is reading stdin.
ServerIdle ==
    /\ disk = <<>>
    /\ _parsed_cache = <<>>
    /\ main_pc = "idle"
    /\ line_no = 0
    /\ line = [json |-> "none"]
    /\ request = [json |-> "none"]
    /\ stdout = <<>>
    /\ log = <<>>

ShellIdle == RegistryIdle /\ ServerIdle

Init == IndexInit /\ ChunkIdle /\ PagesIdle /\ CosineIdle /\ ShellIdle

\* One step of a call on the index by one of the tasks ts, its inputs
\* drawn from the given batches, doc_ids, embedder vectors and top_k
\* values.
IndexNext(ts, batches, docs, vectors, topks) ==
    \/ \E t \in ts, batch \in batches : add_chunks_call(t, batch)
    \/ \E t \in ts,
          embeddings \in UNION {[1..n -> vectors] : n \in 1..MaxBatch} :
           _embed_returns_add(t, embeddings)
    \/ \E t \in ts : _embed_raises(t)
    \/ \E t \in ts : add_chunks_56(t)
    \/ \E t \in ts : add_chunks_57(t)
    \/ \E t \in ts : add_chunks_59(t)
    \/ \E t \in ts, d \in docs \cup {NoDoc}, top_k \in topks :
           search_call(t, d, top_k)
    \/ \E t \in ts, query_embedding \in vectors :
           _embed_returns_search(t, query_embedding)
    \/ \E t \in ts, d \in docs : remove_document_call(t, d)
    \/ \E t \in ts : remove_document_114(t)
    \/ \E t \in ts : remove_document_115(t)
    \/ \E t \in ts : remove_document_116(t)
    \/ \E t \in ts : list_documents_call(t)
    \/ \E t \in ts : total_chunks_call(t)

\* The server's loop awaits each tool call before it reads the next
\* request: one call on the index at a time, task 1's.
Next == IndexNext({1}, Batches, {"A", "B"}, Vectors, TopKs)

Spec == Init /\ [][Next]_vars

\* Calls on one index from several tasks, switched where a call awaits:
\* a two-chunk batch for one document, a one-chunk batch that reuses an
\* id for another, one embedding, searches for all results.
ConcBatches ==
    {<<[id |-> "c1", doc_id |-> "A", text |-> "t1"],
       [id |-> "c2", doc_id |-> "A", text |-> "t2"]>>,
     <<[id |-> "c1", doc_id |-> "B", text |-> "t3"]>>}

NextConc == IndexNext(Tasks, ConcBatches, {"A", "B"}, {<<1, 0>>}, {MaxTopK})

SpecConc == Init /\ [][NextConc]_vars

\* The server's loop again, over a document with an ordinary doc_id and
\* the document whose doc_id is the empty string.
NextAnyDocId ==
    IndexNext({1}, BatchesOf({"A", ""}), {"A", ""}, Vectors, TopKs)

SpecAnyDocId == Init /\ [][NextAnyDocId]_vars

\* What the embedder returns, more widely: two parallel vectors of
\* different length, a vector orthogonal to them, one opposite to the
\* first, and the zero vector.
WideVectors == {<<1, 0>>, <<2, 0>>, <<0, 1>>, <<-1, 0>>, <<0, 0>>}

\* The server's loop over one document, the embedder answering with any
\* of the wide vectors.
NextVectors == IndexNext({1}, BatchesOf({"A"}), {"A"}, WideVectors, TopKs)

SpecVectors == Init /\ [][NextVectors]_vars

(* --------------------------- chunker.chunk_text ----------------------- *)

\* hashlib.sha256(f"{doc_id}:{index}:{start}").hexdigest()[:12], taken as
\* injective on its input.
ChunkId(d, i, s) == <<d, i, s>>

Chunk(d, content, i, s, e) ==
    [id         |-> ChunkId(d, i, s),
     doc_id     |-> d,
     text       |-> content,
     index      |-> i,
     start_char |-> s,
     end_char   |-> e,
     metadata   |-> [chunk_size |-> Len(content),
                     word_count |-> WordCount(content)]]

ValidParams == chunk_size > 0 /\ overlap >= 0 /\ overlap < chunk_size

\* Lines 57-64: the window's end, snapped to the last separator when the
\* window does not reach the end of the text.
WindowEnd(s) ==
    LET e0 == s + chunk_size
    IN  IF e0 < Len(text)
        THEN LET last_sep == RFind(text, separator, s, e0)
             IN  IF last_sep > s THEN last_sep + Len(separator) ELSE e0
        ELSE e0

\* A cursor that steps back by twice the overlap.
NextStartTwiceOverlap(e) == e - 2 * overlap

\* A cursor that skips the character at the window's end.
NextStartSkipsOne(e) == e - overlap + 1

\* Line 88: start = end - overlap
NextStart(e) == e - overlap

\* Line 92: the non-advancing-cursor test on the new start.
NotAdvancing(new_start, cs) ==
    IF cs # <<>> THEN new_start <= cs[Len(cs)].start_char
    ELSE new_start <= 0

\* Line 68: a window is emitted when its trimmed text is not empty.
EmittedAlways(content) == TRUE

Emitted(content) == content # <<>>

\* Line 85: the index moves on only inside the emit branch.
NextIndexEveryWindow(i, content) == i + 1

NextIndex(i, content) == IF Emitted(content) THEN i + 1 ELSE i

\* Lines 42-54: the blank-text return, the argument checks, the locals.
chunk_text_entry ==
    /\ pc = "call"
    /\ IF Strip(text) = <<>> THEN pc' = "returned"
       ELSE IF ~ValidParams THEN pc' = "raised"
       ELSE pc' = "while"
    /\ UNCHANGED <<text, doc_id, chunk_size, overlap, separator,
                   start, end, index, chunks>>
    /\ UNCHANGED <<indexVars, calls, running, pageVars, cosineVars, shellVars>>

\* Lines 56-66: the loop test and the window [start, end).
chunk_text_window ==
    /\ pc = "while"
    /\ IF start < Len(text)
       THEN /\ end' = WindowEnd(start)
            /\ pc' = "emit"
       ELSE /\ pc' = "returned"
            /\ UNCHANGED end
    /\ UNCHANGED <<text, doc_id, chunk_size, overlap, separator,
                   start, index, chunks>>
    /\ UNCHANGED <<indexVars, calls, running, pageVars, cosineVars, shellVars>>

\* Lines 68-93: emit the window when it is not blank, move the cursor.
chunk_text_advance ==
    /\ pc = "emit"
    /\ LET content   == Strip(Slice(text, start, end))
           cs        == IF Emitted(content)
                        THEN Append(chunks,
                                 Chunk(doc_id, content, index, start, end))
                        ELSE chunks
           new_start == NextStart(end)
       IN  /\ chunks' = cs
           /\ index' = NextIndex(index, content)
           /\ IF new_start >= Len(text)
              THEN /\ start' = new_start
                   /\ pc' = "returned"
              ELSE /\ start' = IF NotAdvancing(new_start, cs)
                               THEN end ELSE new_start
                   /\ pc' = "while"
    /\ UNCHANGED <<text, doc_id, chunk_size, overlap, separator, end>>
    /\ UNCHANGED <<indexVars, calls, running, pageVars, cosineVars, shellVars>>

ChunkInit ==
    /\ ShellIdle
    /\ IndexInit
    /\ PagesIdle
    /\ CosineIdle
    /\ text \in Texts
    /\ doc_id \in ChunkDocIds
    /\ chunk_size \in -1..MaxChunkSize
    /\ overlap \in -1..MaxChunkSize
    /\ separator \in Separators
    /\ pc = "call"
    /\ start = 0
    /\ end = 0
    /\ index = 0
    /\ chunks = <<>>

ChunkNext ==
    \/ chunk_text_entry
    \/ chunk_text_window
    \/ chunk_text_advance

SpecChunk == ChunkInit /\ [][ChunkNext]_vars

\* The interpreter runs a started call on: each step of chunk_text that
\* can be taken is eventually taken.
SpecChunkFair == SpecChunk /\ WF_vars(ChunkNext)

(* ------------------------- chunker.chunk_by_pages --------------------- *)

\* The page texts tried: an empty page, a blank one, a one-chunk page and
\* two pages that chunk_text cuts into several chunks.
PageTexts ==
    {<<>>, <<" ">>, <<"a">>, <<"a", " ", "a", "a">>, <<"a", "\n", "a">>}

PageLists == UNION {[1..n -> PageTexts] : n \in 0..MaxPages}

\* A page doc_id that leaves the page number out.
PageDocIdWithoutPage(d, n) == d \o "_p"

\* Line 124: f"{doc_id}_p{page_num}"
PageDocId(d, n) == d \o "_p" \o ToString(n)

\* Lines 129-131: the page chunk gets its page (1-based) and the
\* document's doc_id; its id stays as chunk_text made it.
PageChunk(c, d, n) ==
    [id         |-> c.id,
     doc_id     |-> d,
     text       |-> c.text,
     index      |-> c.index,
     start_char |-> c.start_char,
     end_char   |-> c.end_char,
     metadata   |-> [chunk_size |-> c.metadata.chunk_size,
                     word_count |-> c.metadata.word_count,
                     page       |-> n + 1]]

\* A result that keeps the indexes chunk_text gave within each page.
KeepPageIndexes(cs) == cs

\* Lines 136-137: chunk.index = i over the combined list.
Reindex(cs) == [i \in 1..Len(cs) |-> [cs[i] EXCEPT !.index = i - 1]]

\* Lines 118-127: the next page; a blank one is skipped, another one goes
\* to chunk_text under the page's doc_id and the default separator.
chunk_by_pages_page ==
    /\ pages_pc = "for"
    /\ page_num < Len(pages)
    /\ IF Strip(pages[page_num + 1]) = <<>>
       THEN /\ page_num' = page_num + 1
            /\ UNCHANGED <<pages_pc, text, doc_id, separator, pc, start,
                           end, index, chunks>>
       ELSE /\ text' = pages[page_num + 1]
            /\ doc_id' = PageDocId(pages_doc_id, page_num)
            /\ separator' = <<"\n">>
            /\ pc' = "call"
            /\ start' = 0
            /\ end' = 0
            /\ index' = 0
            /\ chunks' = <<>>
            /\ pages_pc' = "chunk_text"
            /\ UNCHANGED page_num
    /\ UNCHANGED <<pages, pages_doc_id, all_chunks, chunk_size, overlap>>
    /\ UNCHANGED <<indexVars, calls, running, cosineVars, shellVars>>

\* Lines 129-133: chunk_text returned; its chunks are relabelled and
\* appended, and the loop goes to the next page.
chunk_by_pages_extend ==
    /\ pages_pc = "chunk_text"
    /\ pc = "returned"
    /\ all_chunks' = all_chunks \o
           [i \in 1..Len(chunks) |->
               PageChunk(chunks[i], pages_doc_id, page_num)]
    /\ page_num' = page_num + 1
    /\ pages_pc' = "for"
    /\ UNCHANGED <<pages, pages_doc_id, chunkVars>>
    /\ UNCHANGED <<indexVars, calls, running, cosineVars, shellVars>>

\* Line 122: chunk_text raised; chunk_by_pages does not catch it.
chunk_by_pages_raises ==
    /\ pages_pc = "chunk_text"
    /\ pc = "raised"
    /\ pages_pc' = "raised"
    /\ UNCHANGED <<pages, pages_doc_id, page_num, all_chunks, chunkVars>>
    /\ UNCHANGED <<indexVars, calls, running, cosineVars, shellVars>>

\* Lines 135-139: after the last page, the re-index and the return.
chunk_by_pages_reindex ==
    /\ pages_pc = "for"
    /\ page_num = Len(pages)
    /\ all_chunks' = Reindex(all_chunks)
    /\ pages_pc' = "returned"
    /\ UNCHANGED <<pages, pages_doc_id, page_num, chunkVars>>
    /\ UNCHANGED <<indexVars, calls, running, cosineVars, shellVars>>

\* chunk_by_pages is called: line 116 has run, no page is read yet.
PagesInit ==
    /\ ShellIdle
    /\ IndexInit
    /\ CosineIdle
    /\ pages \in PageLists
    /\ pages_doc_id \in ChunkDocIds
    /\ chunk_size \in -1..MaxChunkSize
    /\ overlap \in -1..MaxChunkSize
    /\ pages_pc = "for"
    /\ page_num = 0
    /\ all_chunks = <<>>
    /\ text = <<>>
    /\ doc_id = pages_doc_id
    /\ separator = <<"\n">>
    /\ pc = "returned"
    /\ start = 0
    /\ end = 0
    /\ index = 0
    /\ chunks = <<>>

PagesNext ==
    \/ chunk_by_pages_page
    \/ chunk_text_entry
    \/ chunk_text_window
    \/ chunk_text_advance
    \/ chunk_by_pages_extend
    \/ chunk_by_pages_raises
    \/ chunk_by_pages_reindex

SpecPages == PagesInit /\ [][PagesNext]_vars

(* ------------------- search._cosine_similarity alone ------------------ *)

CosineVectors ==
    {<<x, y>> : x \in -MaxComponent..MaxComponent,
                y \in -MaxComponent..MaxComponent}

\* Lines 144-149, called on its own: the result, or the
\* ZeroDivisionError of line 149 when norm_a * norm_b is zero there.
_cosine_similarity_call ==
    /\ cos_pc = "call"
    /\ LET score == _cosine_similarity(cos_a, cos_b)
       IN  IF score.den = 0
           THEN /\ cos_pc' = "raised"
                /\ UNCHANGED cos_result
           ELSE /\ cos_pc' = "returned"
                /\ cos_result' = score
    /\ UNCHANGED <<cos_a, cos_b>>
    /\ UNCHANGED <<indexVars, calls, running, chunkVars, pageVars, shellVars>>

CosineInit ==
    /\ ShellIdle
    /\ IndexInit
    /\ ChunkIdle
    /\ PagesIdle
    /\ cos_a \in CosineVectors
    /\ cos_b \in CosineVectors
    /\ cos_pc = "call"
    /\ cos_result = [num |-> 0, den |-> 1]

CosineNext == _cosine_similarity_call

SpecCosine == CosineInit /\ [][CosineNext]_vars

(* ------------------- parsers.DocumentParserRegistry ------------------- *)

\* File paths with no directory part: a stem followed by an extension.
PathStems == {<<>>, <<"a">>, <<"a", ".", "t", "x", "t">>}

PathExtensions ==
    {<<>>, <<".">>,
     <<".", "p", "d", "f">>, <<".", "P", "D", "F">>,
     <<".", "d", "o", "c", "x">>,
     <<".", "t", "x", "t">>, <<".", "T", "X", "T">>,
     <<".", "m", "d">>, <<".", "c", "s", "v">>, <<".", "l", "o", "g">>,
     <<".", "j", "s", "o", "n">>, <<".", "y", "a", "m", "l">>,
     <<".", "y", "m", "l">>, <<".", "x", "y", "z">>}

RegistryPaths == {s \o e : s \in PathStems, e \in PathExtensions}

\* str.lower(), on the letters the paths are written with.
LowerChar(c) ==
    CASE c = "P" -> "p" [] c = "D" -> "d" [] c = "F" -> "f"
      [] c = "T" -> "t" [] c = "X" -> "x" [] OTHER -> c

Lower(s) == IF s = <<>> THEN <<>> ELSE [i \in 1..Len(s) |-> LowerChar(s[i])]

\* str.endswith(suffix).
EndsWith(s, suffix) ==
    /\ Len(s) >= Len(suffix)
    /\ SubSeq(s, Len(s) - Len(suffix) + 1, Len(s)) = suffix

\* pathlib's PurePath.suffix of a path that is a bare file name: from the
\* last dot on, when that dot is neither the first nor the last character.
Suffix(name) ==
    LET dots == {i \in 0..(Len(name) - 1) : name[i + 1] = "."}
        i    == IF dots = {} THEN -1 ELSE SetMax(dots)
    IN  IF 0 < i /\ i < Len(name) - 1
        THEN SubSeq(name, i + 1, Len(name))
        ELSE <<>>

PDFParser_supports(file_path) ==
    EndsWith(Lower(file_path), <<".", "p", "d", "f">>)

DocxParser_supports(file_path) ==
    EndsWith(Lower(file_path), <<".", "d", "o", "c", "x">>)

SUPPORTED_EXTENSIONS ==
    {<<".", "t", "x", "t">>, <<".", "m", "d">>, <<".", "c", "s", "v">>,
     <<".", "l", "o", "g">>, <<".", "j", "s", "o", "n">>,
     <<".", "y", "a", "m", "l">>, <<".", "y", "m", "l">>}

TextParser_supports(file_path) ==
    Lower(Suffix(file_path)) \in SUPPORTED_EXTENSIONS

\* DocumentParserRegistry.__init__: the parsers, in the order they are tried.
_parsers == <<"PDFParser", "DocxParser", "TextParser">>

supports(parser, file_path) ==
    CASE parser = "PDFParser"  -> PDFParser_supports(file_path)
      [] parser = "DocxParser" -> DocxParser_supports(file_path)
      [] parser = "TextParser" -> TextParser_supports(file_path)

NoParser == "none"

\* Lines 150-152: the first parser of the list that supports the path.
FirstSupporting(file_path) ==
    LET accepting == {i \in 1..Len(_parsers) :
                          supports(_parsers[i], file_path)}
    IN  IF accepting = {} THEN NoParser ELSE _parsers[SetMin(accepting)]

Raised(exception, parser) ==
    [outcome |-> "raised", exception |-> exception, parser |-> parser]

Parsed(parser) ==
    [outcome |-> "parsed", exception |-> "none", parser |-> parser]

\* A variant: the file type is looked at before the file.
parse_checks_type_first(file_path, exists) ==
    IF FirstSupporting(file_path) = NoParser
        THEN {Raised("ValueError", NoParser)}
    ELSE IF ~exists
        THEN {Raised("FileNotFoundError", NoParser)}
    ELSE {Parsed(FirstSupporting(file_path)),
          Raised("ParserError", FirstSupporting(file_path))}

\* DocumentParserRegistry.parse: what a call can do, given whether the path
\* exists.  The parser it delegates to returns a document or raises (a
\* damaged file, a missing library, an unreadable file).
DocumentParserRegistry_parse(file_path, exists) ==
    IF ~exists
        THEN {Raised("FileNotFoundError", NoParser)}
    ELSE IF FirstSupporting(file_path) = NoParser
        THEN {Raised("ValueError", NoParser)}
    ELSE {Parsed(FirstSupporting(file_path)),
          Raised("ParserError", FirstSupporting(file_path))}

\* One call of DocumentParserRegistry.parse.
registry_parse ==
    /\ parse_pc = "call"
    /\ \E r \in DocumentParserRegistry_parse(parse_path, parse_exists) :
          /\ parse_result' = r
          /\ parse_pc' = IF r.outcome = "parsed" THEN "returned" ELSE "raised"
    /\ UNCHANGED <<parse_path, parse_exists>>
    /\ UNCHANGED <<indexVars, calls, running, chunkVars, pageVars,
                   cosineVars, serverVars>>

RegistryInit ==
    /\ IndexInit
    /\ ChunkIdle
    /\ PagesIdle
    /\ CosineIdle
    /\ ServerIdle
    /\ parse_path \in RegistryPaths
    /\ parse_exists \in BOOLEAN
    /\ parse_pc = "call"
    /\ parse_result = [outcome |-> "none"]

RegistryNext == registry_parse

SpecRegistry == RegistryInit /\ [][RegistryNext]_vars

(* -------------------- server.DocumentAnalysisServer ------------------- *)

\* The files the requests name: a text file, a PDF and a file of a type
\* no parser supports.
TxtPath == <<"a", ".", "t", "x", "t">>

PdfPath == <<"a", ".", "p", "d", "f">>

XyzPath == <<"a", ".", "x", "y", "z">>

\* Two more text files: one of many short sentences, one whose first
\* sentence is some 8000 characters long.
NotesPath == <<"n", ".", "t", "x", "t">>

LongPath == <<"l", ".", "t", "x", "t">>

ServerPaths == {TxtPath, PdfPath, XyzPath, NotesPath, LongPath}

\* Lines 33-35: sha256(file_path) cut to 16 hex digits, one string per
\* path (the digests of the paths above differ).
_doc_id(file_path) ==
    CASE file_path = TxtPath -> "sha256(a.txt)"
      [] file_path = PdfPath -> "sha256(a.pdf)"
      [] file_path = XyzPath -> "sha256(a.xyz)"
      [] file_path = NotesPath -> "sha256(n.txt)"
      [] file_path = LongPath -> "sha256(l.txt)"

\* What a file holds after it was written for the v-th time.  Read as
\* text: v + 1 words; in the notes, 10 + v sentences "a. a. ... a"; in the
\* long file, a sentence of 7998 + v characters and one of a single
\* character.  Read as a PDF: v pages of one word.
FileText(file_path, v) ==
    IF file_path = NotesPath
    THEN [i \in 1..(3 * (10 + v) - 2) |->
             IF i % 3 = 1 THEN "a" ELSE IF i % 3 = 2 THEN "." ELSE " "]
    ELSE IF file_path = LongPath
    THEN [i \in 1..(7998 + v) |-> "a"] \o <<".", " ", "a">>
    ELSE [i \in 1..(2 * v + 1) |-> IF i % 2 = 1 THEN "a" ELSE " "]

FilePages(v) == [i \in 1..v |-> <<"a">>]

\* "\n\n".join(pages)
RECURSIVE JoinPages(_)
JoinPages(ps) ==
    IF ps = <<>> THEN <<>>
    ELSE IF Len(ps) = 1 THEN ps[1]
    ELSE ps[1] \o <<"\n", "\n">> \o JoinPages(Tail(ps))

NoDocument ==
    [text |-> <<>>, pages |-> <<>>, file_type |-> "", file_path |-> <<>>]

\* parsers.py, the parse methods: the ParsedDocument a parser makes of the
\* file at version v.
ParsedDocument(parser, file_path, v) ==
    IF parser = "PDFParser"
    THEN [text      |-> JoinPages(FilePages(v)),
          pages     |-> FilePages(v),
          file_type |-> "pdf",
          file_path |-> file_path]
    ELSE [text      |-> FileText(file_path, v),
          pages     |-> <<>>,
          file_type |-> "txt",
          file_path |-> file_path]

\* The entries of the log: a handler was entered, or a path was handed
\* to the parser registry.
HandlerEvent(n, name, file_path) ==
    [line |-> n, event |-> "handler", name |-> name,
     file_path |-> file_path, version |-> 0, ok |-> TRUE]

ParserEvent(n, file_path, v, r) ==
    [line |-> n, event |-> "parser", name |-> r.parser,
     file_path |-> file_path, version |-> v, ok |-> r.outcome = "parsed"]

\* A variant that stores a marker for a parse that failed.
_get_or_parse_caches_failure(file_path) ==
    LET id == _doc_id(file_path)
    IN  IF Has(_parsed_cache, id)
        THEN {[ok |-> TRUE, doc |-> Get(_parsed_cache, id),
               exception |-> "none", cache |-> _parsed_cache,
               log |-> <<>>]}
        ELSE {[ok        |-> r.outcome = "parsed",
               doc       |-> IF r.outcome = "parsed"
                             THEN ParsedDocument(r.parser, file_path,
                                                 disk[file_path])
                             ELSE NoDocument,
               exception |-> r.exception,
               cache     |-> IF r.outcome = "parsed"
                             THEN Put(_parsed_cache, id,
                                      ParsedDocument(r.parser, file_path,
                                                     disk[file_path]))
                             ELSE Put(_parsed_cache, id, NoDocument),
               log       |-> <<ParserEvent(line_no, file_path,
                                           disk[file_path], r)>>] :
              r \in DocumentParserRegistry_parse(file_path,
                                                 disk[file_path] > 0)}

\* Lines 37-42: what _get_or_parse can do in the current state: the
\* document it returns or the exception it lets through, the cache it
\* leaves and the parser calls it made.
_get_or_parse(file_path) ==
    LET id == _doc_id(file_path)
    IN  IF Has(_parsed_cache, id)
        THEN {[ok |-> TRUE, doc |-> Get(_parsed_cache, id),
               exception |-> "none", cache |-> _parsed_cache,
               log |-> <<>>]}
        ELSE {[ok        |-> r.outcome = "parsed",
               doc       |-> IF r.outcome = "parsed"
                             THEN ParsedDocument(r.parser, file_path,
                                                 disk[file_path])
                             ELSE NoDocument,
               exception |-> r.exception,
               cache     |-> IF r.outcome = "parsed"
                             THEN Put(_parsed_cache, id,
                                      ParsedDocument(r.parser, file_path,
                                                     disk[file_path]))
                             ELSE _parsed_cache,
               log       |-> <<ParserEvent(line_no, file_path,
                                           disk[file_path], r)>>] :
              r \in DocumentParserRegistry_parse(file_path,
                                                 disk[file_path] > 0)}

\* The arguments of a tool call, with the defaults of the handlers'
\* signatures; valid is FALSE for arguments a handler's signature does
\* not take.
NoArguments ==
    [valid |-> TRUE, file_path |-> <<>>, chunk_size |-> 500,
     overlap |-> 50, index_chunks |-> TRUE, detail_level |-> "brief",
     doc_id |-> NoDoc, top_k |-> 5]

NoParams == [kind |-> "absent", name |-> "", arguments |-> NoArguments]

\* A line of stdin: not JSON ("invalid"), JSON that is not an object
\* ("array"), or a request object.
Line(json, method, params) ==
    [json |-> json, id |-> "null", method |-> method, params |-> params]

InvalidJson == Line("invalid", "", NoParams)

NonObject == Line("array", "", NoParams)

ToolsList == Line("object", "tools/list", NoParams)

OtherMethod == Line("object", "ping", NoParams)

\* A tools/call request whose params are a list.
ParamsNotObject ==
    Line("object", "tools/call", [NoParams EXCEPT !.kind = "array"])

ToolCall(name, arguments) ==
    Line("object", "tools/call",
         [kind |-> "dict", name |-> name, arguments |-> arguments])

\* The id the client gives the n-th line when it is a request.
RequestId(n) == "r" \o ToString(n)

\* main() before its first assignment to `request`.
Unbound == Line("unbound", "", NoParams)

\* Lines 321-327: the names handle_tool_call knows.
handlers ==
    {"extract_text", "chunk_document", "search_chunks",
     "summarize_document", "get_metadata"}

NoBody ==
    [tool |-> "", exception |-> "none", doc |-> NoDocument,
     doc_id |-> NoDoc, total_chunks |-> 0, chunks |-> <<>>,
     summary |-> <<>>, results |-> <<>>, total_indexed |-> 0]

\* Lines 374-375: the response is written and the loop goes on.
write(n, id, body) ==
    /\ stdout' = Append(stdout,
           [line |-> n, kind |-> "result", id |-> id, body |-> body])
    /\ main_pc' = "read"

\* Lines 377-384: the except clause.  The id is request.get("id") when
\* the local `request` is bound, else None; request.get raises in turn
\* when `request` is not an object, and that exception leaves main().
except(req, n, exception) ==
    IF req.json \in {"unbound", "object"}
    THEN /\ stdout' = Append(stdout,
                [line |-> n, kind |-> "error", id |-> req.id,
                 body |-> [NoBody EXCEPT !.exception = exception]])
         /\ main_pc' = "read"
    ELSE /\ stdout' = stdout
         /\ main_pc' = "crashed"

\* Lines 343-372: one line of stdin is read, parsed and dispatched.  A
\* tools/call request goes on in handle_tool_call; every other line is
\* answered here.
main_read(shapes) ==
    /\ main_pc = "read"
    /\ line_no < MaxLines
    /\ \E s \in shapes :
          LET n == line_no + 1
              l == IF s.json = "object"
                   THEN [s EXCEPT !.id = RequestId(n)] ELSE s
          IN  /\ line_no' = n
              /\ line' = l
              /\ IF l.json = "invalid"
                 THEN /\ request' = request
                      /\ except(request, n, "JSONDecodeError")
                 ELSE /\ request' = l
                      /\ IF l.json # "object"
                         THEN except(l, n, "AttributeError")
                         ELSE IF l.method = "tools/list"
                         THEN write(n, l.id,
                                    [NoBody EXCEPT !.tool = "tools/list"])
                         ELSE IF l.method = "tools/call"
                         THEN IF l.params.kind = "array"
                              THEN except(l, n, "AttributeError")
                              ELSE /\ main_pc' = "tools/call"
                                   /\ stdout' = stdout
                         ELSE write(n, l.id, NoBody)
    /\ UNCHANGED <<disk, _parsed_cache, log>>
    /\ UNCHANGED <<indexVars, calls, running, chunkVars, pageVars,
                   cosineVars, registryVars>>

\* The tool call of the line being handled.
ToolName == line.params.name

Arguments == line.params.arguments

Calling(name) ==
    /\ main_pc = "tools/call"
    /\ ToolName = name
    /\ Arguments.valid

\* A dispatcher that enters extract_text for a name it does not know.
handle_tool_call_defaults ==
    /\ main_pc = "tools/call"
    /\ ToolName \notin handlers \/ ~Arguments.valid
    /\ log' = Append(log, HandlerEvent(line_no, "extract_text", <<>>))
    /\ except(request, line_no, "FileNotFoundError")
    /\ UNCHANGED <<disk, _parsed_cache, line_no, line, request>>
    /\ UNCHANGED <<indexVars, calls, running, chunkVars, pageVars,
                   cosineVars, registryVars>>

\* Lines 329-333: a name that is not a tool raises ValueError, and
\* arguments the handler does not take raise TypeError at the call, in
\* both cases before any handler runs.
handle_tool_call_rejects ==
    /\ main_pc = "tools/call"
    /\ ToolName \notin handlers \/ ~Arguments.valid
    /\ except(request, line_no,
              IF ToolName \notin handlers THEN "ValueError"
              ELSE "TypeError")
    /\ UNCHANGED <<disk, _parsed_cache, line_no, line, request, log>>
    /\ UNCHANGED <<indexVars, calls, running, chunkVars, pageVars,
                   cosineVars, registryVars>>

\* Lines 46-62 and 195-215: extract_text and get_metadata answer from the
\* parsed document.
document_tool(name) ==
    /\ Calling(name)
    /\ \E o \in _get_or_parse(Arguments.file_path) :
          /\ _parsed_cache' = o.cache
          /\ log' = Append(log, HandlerEvent(line_no, name,
                                             Arguments.file_path)) \o o.log
          /\ IF o.ok
             THEN write(line_no, request.id,
                        [NoBody EXCEPT !.tool = name, !.doc = o.doc])
             ELSE except(request, line_no, o.exception)
    /\ UNCHANGED <<disk, line_no, line, request>>
    /\ UNCHANGED <<indexVars, calls, running, chunkVars, pageVars,
                   cosineVars, registryVars>>

extract_text == document_tool("extract_text")

get_metadata == document_tool("get_metadata")

\* Lines 83-93: chunk_document gets the document and calls the chunker,
\* chunk_by_pages when the document has pages and chunk_text when not.
chunk_document_call ==
    /\ Calling("chunk_document")
    /\ \E o \in _get_or_parse(Arguments.file_path) :
          /\ _parsed_cache' = o.cache
          /\ log' = Append(log, HandlerEvent(line_no, "chunk_document",
                                             Arguments.file_path)) \o o.log
          /\ IF ~o.ok
             THEN /\ except(request, line_no, o.exception)
                  /\ UNCHANGED <<chunkVars, pageVars>>
             ELSE /\ main_pc' = "chunk_document"
                  /\ stdout' = stdout
                  /\ chunk_size' = Arguments.chunk_size
                  /\ overlap' = Arguments.overlap
                  /\ doc_id' = _doc_id(Arguments.file_path)
                  /\ pages_doc_id' = _doc_id(Arguments.file_path)
                  /\ separator' = <<"\n">>
                  /\ start' = 0
                  /\ end' = 0
                  /\ index' = 0
                  /\ chunks' = <<>>
                  /\ page_num' = 0
                  /\ all_chunks' = <<>>
                  /\ IF o.doc.pages # <<>>
                     THEN /\ pages' = o.doc.pages
                          /\ pages_pc' = "for"
                          /\ text' = <<>>
                          /\ pc' = "returned"
                     ELSE /\ pages' = <<>>
                          /\ pages_pc' = "idle"
                          /\ text' = o.doc.text
                          /\ pc' = "call"
    /\ UNCHANGED <<disk, line_no, line, request>>
    /\ UNCHANGED <<indexVars, calls, running, cosineVars, registryVars>>

\* The chunker chunk_document called, and what came of it.
ByPages == pages_pc # "idle"

ChunkerReturned ==
    IF ByPages THEN pages_pc = "returned" ELSE pc = "returned"

ChunkerRaised == IF ByPages THEN pages_pc = "raised" ELSE pc = "raised"

ChunkerResult == IF ByPages THEN all_chunks ELSE chunks

\* Lines 102-108: the preview of a chunk, its text cut to 200 characters
\* and marked when longer.
Preview(c) ==
    [id    |-> c.id,
     index |-> c.index,
     text  |-> IF Len(c.text) > 200
               THEN SubSeq(c.text, 1, 200) \o <<".", ".", ".">>
               ELSE c.text]

\* Lines 98-111: the result of chunk_document.
ChunkDocumentResult(cs) ==
    [NoBody EXCEPT !.tool = "chunk_document",
                   !.doc_id = _doc_id(Arguments.file_path),
                   !.total_chunks = Len(cs),
                   !.chunks = [i \in 1..Len(cs) |-> Preview(cs[i])]]

\* A chunk_document that indexes whatever index_chunks says.
chunk_document_always_indexes ==
    /\ main_pc = "chunk_document"
    /\ ChunkerReturned \/ ChunkerRaised
    /\ IF ChunkerRaised
       THEN /\ except(request, line_no, "ValueError")
            /\ UNCHANGED calls
       ELSE /\ main_pc' = "add_chunks"
            /\ stdout' = stdout
            /\ calls' = [calls EXCEPT ![1] = NoCall]
    /\ UNCHANGED <<disk, _parsed_cache, line_no, line, request, log>>
    /\ UNCHANGED <<indexVars, running, chunkVars, pageVars, cosineVars,
                   registryVars>>

\* Lines 86-96: the chunker is back.  Its ValueError leaves the handler;
\* its chunks go to the index when index_chunks is set, and straight
\* into the result when not.
chunk_document_chunked ==
    /\ main_pc = "chunk_document"
    /\ ChunkerReturned \/ ChunkerRaised
    /\ IF ChunkerRaised
       THEN /\ except(request, line_no, "ValueError")
            /\ UNCHANGED calls
       ELSE IF Arguments.index_chunks
       THEN /\ main_pc' = "add_chunks"
            /\ stdout' = stdout
            /\ calls' = [calls EXCEPT ![1] = NoCall]
       ELSE /\ write(line_no, request.id, ChunkDocumentResult(ChunkerResult))
            /\ UNCHANGED calls
    /\ UNCHANGED <<disk, _parsed_cache, line_no, line, request, log>>
    /\ UNCHANGED <<indexVars, running, chunkVars, pageVars, cosineVars,
                   registryVars>>

\* Line 96: self.index.add_chunks(chunks) is entered.
chunk_document_add_chunks ==
    /\ main_pc = "add_chunks"
    /\ calls[1].pc = "idle"
    /\ add_chunks_call(1, ChunkerResult)

\* Lines 96-111: add_chunks is back, with its count or the embedder's
\* exception.
chunk_document_returns ==
    /\ main_pc = "add_chunks"
    /\ calls[1].pc = "done"
    /\ IF calls[1].error # "none"
       THEN except(request, line_no, calls[1].error)
       ELSE write(line_no, request.id, ChunkDocumentResult(ChunkerResult))
    /\ UNCHANGED <<disk, _parsed_cache, line_no, line, request, log>>
    /\ UNCHANGED <<indexVars, calls, running, chunkVars, pageVars,
                   cosineVars, registryVars>>

\* Lines 113-130: search_chunks calls the index.
search_chunks_call ==
    /\ Calling("search_chunks")
    /\ main_pc' = "search"
    /\ calls' = [calls EXCEPT ![1] = NoCall]
    /\ log' = Append(log, HandlerEvent(line_no, "search_chunks", <<>>))
    /\ UNCHANGED <<disk, _parsed_cache, line_no, line, request, stdout>>
    /\ UNCHANGED <<indexVars, running, chunkVars, pageVars, cosineVars,
                   registryVars>>

\* Line 130: self.index.search(query, doc_id=doc_id, top_k=top_k) is
\* entered.
search_chunks_search ==
    /\ main_pc = "search"
    /\ calls[1].pc = "idle"
    /\ search_call(1, Arguments.doc_id, Arguments.top_k)

\* Lines 130-144: search is back, with its results or the embedder's
\* exception.
search_chunks_returns ==
    /\ main_pc = "search"
    /\ calls[1].pc = "done"
    /\ IF calls[1].error # "none"
       THEN except(request, line_no, calls[1].error)
       ELSE write(line_no, request.id,
                  [NoBody EXCEPT !.tool = "search_chunks",
                                 !.results = calls[1].result,
                                 !.total_indexed = total_chunks])
    /\ UNCHANGED <<disk, _parsed_cache, line_no, line, request, log>>
    /\ UNCHANGED <<indexVars, calls, running, chunkVars, pageVars,
                   cosineVars, registryVars>>

\* Line 171: the text given to the model, its first 8000 characters.
Truncate(t) == IF Len(t) > 8000 THEN SubSeq(t, 1, 8000) ELSE t

\* The places of ". " in t, by the place of the period (1-based); two
\* occurrences cannot overlap.
Separations(t) ==
    {i \in 1..(Len(t) - 1) : t[i] = "." /\ t[i + 1] = " "}

NthSeparation(t, k) ==
    CHOOSE i \in Separations(t) :
        Cardinality({j \in Separations(t) : j < i}) = k - 1

\* Line 184: text.split(". ")
Split(t) ==
    LET n == Cardinality(Separations(t))
    IN  [k \in 1..(n + 1) |->
            SubSeq(t,
                   IF k = 1 THEN 1 ELSE NthSeparation(t, k - 1) + 2,
                   IF k = n + 1 THEN Len(t) ELSE NthSeparation(t, k) - 1)]

\* ". ".join(sentences)
RECURSIVE Join(_)
Join(sentences) ==
    IF sentences = <<>> THEN <<>>
    ELSE IF Len(sentences) = 1 THEN sentences[1]
    ELSE sentences[1] \o <<".", " ">> \o Join(Tail(sentences))

\* Line 185: the number of sentences kept for a detail level.
SentenceCount(detail_level) ==
    CASE detail_level = "brief" -> 2
      [] detail_level = "standard" -> 5
      [] detail_level = "detailed" -> 10
      [] OTHER -> 5

\* Lines 184-186: the extractive summary of the text given to the model.
FallbackSummary(t, detail_level) ==
    Join(Take(Split(t), SentenceCount(detail_level))) \o <<".">>

\* What the remote model answers when it answers.
RemoteSummary == <<"s">>

ChatEvent(n, ok) ==
    [line |-> n, event |-> "chat", name |-> "", file_path |-> <<>>,
     version |-> 0, ok |-> ok]

\* Lines 161-193: summarize_document.  The remote call answers or raises
\* (no library, no key, no network); when it raises the summary is made
\* locally.
summarize_document ==
    /\ Calling("summarize_document")
    /\ \E o \in _get_or_parse(Arguments.file_path), answers \in BOOLEAN :
          /\ _parsed_cache' = o.cache
          /\ IF ~o.ok
             THEN /\ log' = Append(log,
                        HandlerEvent(line_no, "summarize_document",
                                     Arguments.file_path)) \o o.log
                  /\ except(request, line_no, o.exception)
             ELSE /\ log' = Append(log,
                        HandlerEvent(line_no, "summarize_document",
                                     Arguments.file_path))
                        \o o.log \o <<ChatEvent(line_no, answers)>>
                  /\ write(line_no, request.id,
                        [NoBody EXCEPT
                            !.tool = "summarize_document",
                            !.summary =
                                IF answers THEN RemoteSummary
                                ELSE FallbackSummary(
                                         Truncate(o.doc.text),
                                         Arguments.detail_level)])
    /\ UNCHANGED <<disk, line_no, line, request>>
    /\ UNCHANGED <<indexVars, calls, running, chunkVars, pageVars,
                   cosineVars, registryVars>>

\* The environment replaces, creates or deletes a file.  It does so
\* between two lines: a handler reads the disk in its first step only.
disk_write(file_path, v) ==
    /\ main_pc = "read"
    /\ v # disk[file_path]
    /\ disk' = [disk EXCEPT ![file_path] = v]
    /\ UNCHANGED <<_parsed_cache, main_pc, line_no, line, request,
                   stdout, log>>
    /\ UNCHANGED <<indexVars, calls, running, chunkVars, pageVars,
                   cosineVars, registryVars>>

\* A server was constructed (lines 28-31) and main() is about to read
\* its first line; the files are as disk0 says.
ServerInit(disk0) ==
    /\ IndexInit
    /\ ChunkIdle
    /\ PagesIdle
    /\ CosineIdle
    /\ RegistryIdle
    /\ disk = disk0
    /\ _parsed_cache = <<>>
    /\ main_pc = "read"
    /\ line_no = 0
    /\ line = Unbound
    /\ request = Unbound
    /\ stdout = <<>>
    /\ log = <<>>

\* The embedder's answer to the server's add_chunks: one vector a text.
ServerEmbeddings == {[n \in 1..Len(calls[1].chunks) |-> <<1, 0>>]}

\* The request loop on its own: the text file is there, the PDF is not,
\* and the lines are of every kind main() tells apart, the tool calls
\* among them failing in each of the ways a handler can fail.
LoopDisk ==
    [file_path \in ServerPaths |->
        IF file_path \in {TxtPath, XyzPath} THEN 1 ELSE 0]

LoopShapes ==
    {InvalidJson, NonObject, ToolsList, OtherMethod, ParamsNotObject,
     ToolCall("nope", NoArguments),
     ToolCall("extract_text", [NoArguments EXCEPT !.valid = FALSE]),
     ToolCall("extract_text", [NoArguments EXCEPT !.file_path = TxtPath]),
     ToolCall("extract_text", [NoArguments EXCEPT !.file_path = PdfPath]),
     ToolCall("get_metadata", [NoArguments EXCEPT !.file_path = XyzPath]),
     ToolCall("chunk_document",
              [NoArguments EXCEPT !.file_path = TxtPath,
                                  !.chunk_size = 2, !.overlap = 0]),
     ToolCall("chunk_document",
              [NoArguments EXCEPT !.file_path = TxtPath,
                                  !.chunk_size = 2, !.overlap = 2]),
     ToolCall("search_chunks", NoArguments)}

LoopInit == ServerInit(LoopDisk)

LoopNext ==
    \/ main_read(LoopShapes)
    \/ handle_tool_call_rejects
    \/ extract_text
    \/ get_metadata
    \/ chunk_document_call
    \/ chunk_text_entry
    \/ chunk_text_window
    \/ chunk_text_advance
    \/ chunk_document_chunked
    \/ chunk_document_add_chunks
    \/ \E embeddings \in ServerEmbeddings : _embed_returns_add(1, embeddings)
    \/ _embed_raises(1)
    \/ add_chunks_56(1)
    \/ add_chunks_57(1)
    \/ add_chunks_59(1)
    \/ chunk_document_returns
    \/ search_chunks_call
    \/ search_chunks_search
    \/ _embed_returns_search(1, <<1, 0>>)
    \/ search_chunks_returns

SpecLoop == LoopInit /\ [][LoopNext]_vars

\* summarize_document on its own: requests at every detail level for
\* the notes and the long file, as they are on disk at some version.
SummarizeDisks ==
    {[file_path \in ServerPaths |->
         IF file_path \in {NotesPath, LongPath} THEN v ELSE 0] :
     v \in 1..MaxVersion}

DetailLevels == {"brief", "standard", "detailed", "long"}

SummarizeShapes ==
    {ToolCall("summarize_document",
              [NoArguments EXCEPT !.file_path = f, !.detail_level = d]) :
     f \in {NotesPath, LongPath, TxtPath}, d \in DetailLevels}

SummarizeInit == \E disk0 \in SummarizeDisks : ServerInit(disk0)

SummarizeNext ==
    \/ main_read(SummarizeShapes)
    \/ summarize_document

SpecSummarize == SummarizeInit /\ [][SummarizeNext]_vars

\* The parsed-document cache under a file that comes, changes and goes:
\* the text file starts missing, and two tools are called on it.
CacheDisk == [file_path \in ServerPaths |-> 0]

CacheShapes ==
    {ToolCall("extract_text", [NoArguments EXCEPT !.file_path = TxtPath]),
     ToolCall("chunk_document",
              [NoArguments EXCEPT !.file_path = TxtPath, !.chunk_size = 2,
                                  !.overlap = 0, !.index_chunks = FALSE])}

CacheInit == ServerInit(CacheDisk)

CacheNext ==
    \/ \E v \in 0..MaxVersion : disk_write(TxtPath, v)
    \/ main_read(CacheShapes)
    \/ extract_text
    \/ chunk_document_call
    \/ chunk_text_entry
    \/ chunk_text_window
    \/ chunk_text_advance
    \/ chunk_document_chunked

SpecCache == CacheInit /\ [][CacheNext]_vars

\* chunk_document on its own, with and without indexing, on a text file
\* and on a PDF that are on disk at some version.
ChunkDocumentDisks ==
    {[file_path \in ServerPaths |->
         IF file_path \in {TxtPath, PdfPath} THEN v ELSE 0] :
     v \in 1..MaxVersion}

ChunkDocumentShapes ==
    {ToolCall("chunk_document",
              [NoArguments EXCEPT !.file_path = f, !.chunk_size = 2,
                                  !.overlap = 0, !.index_chunks = b]) :
     f \in {TxtPath, PdfPath}, b \in BOOLEAN}

ChunkDocumentInit == \E disk0 \in ChunkDocumentDisks : ServerInit(disk0)

ChunkDocumentNext ==
    \/ main_read(ChunkDocumentShapes)
    \/ chunk_document_call
    \/ chunk_by_pages_page
    \/ chunk_text_entry
    \/ chunk_text_window
    \/ chunk_text_advance
    \/ chunk_by_pages_extend
    \/ chunk_by_pages_reindex
    \/ chunk_document_chunked
    \/ chunk_document_add_chunks
    \/ \E embeddings \in ServerEmbeddings : _embed_returns_add(1, embeddings)
    \/ _embed_raises(1)
    \/ add_chunks_56(1)
    \/ add_chunks_57(1)
    \/ add_chunks_59(1)
    \/ chunk_document_returns

SpecChunkDocument == ChunkDocumentInit /\ [][ChunkDocumentNext]_vars

(* ----------------------- claims: DocumentIndex ------------------------ *)

Range(f) == {f[i] : i \in DOMAIN f}

\* No call on the index is under way.
Completed == \A t \in Tasks : calls[t].pc \in {"idle", "done"}

\* Every chunk id some document's list holds.
ListedIds == UNION {Range(_doc_chunks[n].v) : n \in 1..Len(_doc_chunks)}

\* The chunks the index holds for document d.
IndexedFor(d) ==
    {id \in Keys(_chunks) : Get(_chunks, id).doc_id = d}

RECURSIVE SumCounts(_)
SumCounts(docs) ==
    IF docs = <<>> THEN 0
    ELSE docs[1].chunk_count + SumCounts(Tail(docs))

\* The chunk count a list_documents() result gives for d (0: not listed).
CountOf(docs, d) ==
    SumCounts(SelectSeq(docs, LAMBDA e : e.doc_id = d))

Listed(docs, d) == \E n \in 1..Len(docs) : docs[n].doc_id = d

\* C3: between calls, the ids with a stored Chunk, the ids with a stored
\* vector and the ids in the documents' lists are the same set.
C3_MappingsAgree ==
    Completed =>
        /\ Keys(_chunks) = Keys(_embeddings)
        /\ Keys(_chunks) = ListedIds

\* C4: between calls, no document's list repeats an id, the count
\* list_documents() gives for a document is the number of chunks indexed
\* for it, and the counts sum to total_chunks.
C4_ListsAreSets ==
    Completed =>
        /\ \A n \in 1..Len(_doc_chunks) :
              /\ Cardinality(Range(_doc_chunks[n].v)) = Len(_doc_chunks[n].v)
              /\ list_documents[n].chunk_count =
                     Cardinality(IndexedFor(_doc_chunks[n].k))
        /\ SumCounts(list_documents) = total_chunks

\* C5: a remove_document call on an unknown doc_id changes nothing and
\* raises nothing; one on a known doc_id lowers total_chunks by the count
\* list_documents() gave for the document just before the call, and
\* list_documents() no longer lists it.
C5_RemoveStep(t) ==
    (/\ calls'[t] # calls[t]
     /\ calls'[t].op = "remove_document"
     /\ calls'[t].pc = "done") =>
        LET d   == calls'[t].doc_id
            obs == calls'[t].observed
        IN  /\ calls'[t].error = "none"
            /\ IF ~Listed(obs.documents, d)
               THEN UNCHANGED indexVars
               ELSE /\ total_chunks' =
                          obs.total_chunks - CountOf(obs.documents, d)
                    /\ ~Listed(list_documents', d)

C5_RemoveDocument == [][\A t \in Tasks : C5_RemoveStep(t)]_vars

\* C6: a call of add_chunks or search that ends with the embedder's
\* failure leaves the three dicts as the call found them, and so does
\* every search, failed or not.
C6_CallStep(t) ==
    (/\ calls'[t] # calls[t]
     /\ calls[t].pc \in {"add_embed", "search_embed"}
     /\ calls'[t].pc = "done"
     /\ calls'[t].error = "EmbeddingFailure" \/ calls'[t].op = "search") =>
        /\ Snapshot' = calls[t].before
        /\ UNCHANGED indexVars

C6_FailedEmbedLeavesIndex == [][\A t \in Tasks : C6_CallStep(t)]_vars

C6_Witness ==
    /\ calls[1].op = "add_chunks"
    /\ calls[1].error = "EmbeddingFailure"
    /\ Len(_chunks) = 2
    /\ Len(_doc_chunks) = 2

\* C7: from the step after which a call has begun to change the dicts to
\* the step that ends the change, no other call takes a step: what any
\* other call reads is the dicts before the whole update or after it.
Updating(t) ==
    calls[t].pc \in {"add_57", "add_59", "remove_115", "remove_116"}
    \/ (calls[t].pc \in {"add_56", "remove_114"} /\ calls[t].i > 1)

C7_UpdatesAtomic ==
    [][\A t, u \in Tasks :
          (t # u /\ calls'[t] # calls[t]) => ~Updating(u)]_vars

C7_Witness ==
    \E t, u \in Tasks :
        /\ Updating(t)
        /\ calls[t].op = "add_chunks"
        /\ calls[u].pc = "search_embed"
        /\ Keys(_chunks) # Keys(_embeddings)

\* The step in which a search call returns its results.
SearchReturns(t) ==
    /\ calls[t].pc = "search_embed"
    /\ calls'[t].pc = "done"
    /\ calls'[t].error = "none"

\* C11: a search scoped to a doc_id the index knows (one with a chunk-id
\* list, the empty-string doc_id included) returns only chunks of that
\* document.
C11_SearchStep(t) ==
    (/\ SearchReturns(t)
     /\ calls[t].doc_id # NoDoc
     /\ Has(_doc_chunks, calls[t].doc_id)) =>
        \A n \in 1..Len(calls'[t].result) :
            calls'[t].result[n].chunk.doc_id = calls[t].doc_id

C11_ScopedSearchStaysInDocument ==
    [][\A t \in Tasks : C11_SearchStep(t)]_vars

\* The step in which the embedder answers a search call.
SearchAnswered(t) ==
    /\ calls[t].pc = "search_embed"
    /\ calls'[t].pc = "done"
    /\ calls'[t].query_embedding # <<>>

\* C12: a search with a doc_id the index does not know (no chunk-id list:
\* never added, or removed) raises nothing and returns what the same
\* search without a doc_id returns.
C12_SearchStep(t) ==
    (/\ SearchAnswered(t)
     /\ calls[t].doc_id # NoDoc
     /\ ~Has(_doc_chunks, calls[t].doc_id)) =>
        /\ calls'[t].error = "none"
        /\ calls'[t].result =
               SearchResults(calls'[t].query_embedding, NoDoc,
                             calls[t].top_k)

C12_UnknownDocFallsBack == [][\A t \in Tasks : C12_SearchStep(t)]_vars

\* A search for "B", not in the index, returned the two chunks of "A".
C12_Witness ==
    /\ calls[1].op = "search" /\ calls[1].pc = "done"
    /\ calls[1].doc_id = "B"
    /\ ~Has(_doc_chunks, "B")
    /\ Len(calls[1].result) = 2
    /\ calls[1].result[1].chunk.doc_id = "A"

\* The chunk ids a search goes through, in the order the claim names:
\* the document's list when scoped to a known document, the keys of the
\* index in insertion order otherwise.
InsertionOrder(d) ==
    IF d # NoDoc /\ Has(_doc_chunks, d) THEN Get(_doc_chunks, d)
    ELSE KeyList(_chunks)

SameScore(x, y) == ~ScoreLess(x, y) /\ ~ScoreLess(y, x)

\* C13: the results of a search never rise in score from one to the
\* next, and two results of equal score stand in the order in which their
\* chunk ids were inserted.
C13_SearchStep(t) ==
    SearchReturns(t) =>
        LET r     == calls'[t].result
            order == InsertionOrder(calls[t].doc_id)
        IN  /\ \A n \in 1..(Len(r) - 1) :
                   ~ScoreLess(r[n].score, r[n + 1].score)
            /\ \A n, m \in 1..Len(r) :
                   (n < m /\ SameScore(r[n].score, r[m].score)) =>
                       \E p, q \in 1..Len(order) :
                           /\ p < q
                           /\ order[p] = r[n].chunk.id
                           /\ order[q] = r[m].chunk.id

C13_RankedStable == [][\A t \in Tasks : C13_SearchStep(t)]_vars

\* A search returned two different chunks of equal score.
C13_Witness ==
    /\ calls[1].op = "search" /\ calls[1].pc = "done"
    /\ Len(calls[1].result) = 2
    /\ SameScore(calls[1].result[1].score, calls[1].result[2].score)
    /\ calls[1].result[1].chunk.id # calls[1].result[2].chunk.id

\* A search that moved the later-inserted chunk to the front.
C13_WitnessReordered ==
    /\ calls[1].op = "search" /\ calls[1].pc = "done"
    /\ Len(calls[1].result) = 2
    /\ ScoreLess(calls[1].result[2].score, calls[1].result[1].score)
    /\ KeyList(_chunks) =
           <<calls[1].result[2].chunk.id, calls[1].result[1].chunk.id>>

\* C14: for top_k >= 0 a search returns min(top_k, number of candidates)
\* results, the first top_k of the ranking of all candidates.
C14_SearchStep(t) ==
    (SearchReturns(t) /\ calls[t].top_k >= 0) =>
        LET r          == calls'[t].result
            candidates == CandidateIds(calls[t].doc_id)
            ranking    == SearchResults(calls'[t].query_embedding,
                              calls[t].doc_id, Len(candidates))
        IN  /\ Len(r) = Min(calls[t].top_k, Len(candidates))
            /\ r = SubSeq(ranking, 1, Len(r))

C14_TopKResults == [][\A t \in Tasks : C14_SearchStep(t)]_vars

\* The embedder calls of the call c: none for add_chunks([]), which has
\* returned 0; one for every other add_chunks, in document mode with the
\* chunks' texts in input order; one for a search, in query mode.
C15_CallEmbedsOnce(c) ==
    /\ c.op = "add_chunks" =>
          IF c.pc = "done" /\ c.error = "none" /\ c.result = <<0>>
          THEN c.embed_calls = 0
          ELSE /\ c.embed_calls = 1
               /\ c.pc # "done" =>
                     /\ c.chunks # <<>>
                     /\ c.request.texts =
                            [n \in 1..Len(c.chunks) |-> c.chunks[n].text]
                     /\ c.request.input_type = "search_document"
    /\ c.op = "search" =>
          /\ c.embed_calls = 1
          /\ c.pc # "done" =>
                /\ c.request.texts = <<Query>>
                /\ c.request.input_type = "search_query"
                /\ c.request.input_type # add_input_type

\* The step of an add_chunks call that called no embedder: it returned 0
\* and left the index as it was.
C15_EmptyAddStep(t) ==
    (/\ calls'[t] # calls[t]
     /\ calls'[t].op = "add_chunks"
     /\ calls'[t].embed_calls = 0) =>
        /\ calls'[t].pc = "done"
        /\ calls'[t].result = <<0>>
        /\ UNCHANGED indexVars

\* C15: add on a non-empty list calls the embedder once, in document
\* mode, with all chunk texts in input order; add([]) returns 0, calls no
\* embedder and changes nothing; search calls the embedder once, in query
\* mode, a mode other than add's.
C15_EmbedderCalls ==
    /\ [](\A t \in Tasks : C15_CallEmbedsOnce(calls[t]))
    /\ [][\A t \in Tasks : C15_EmptyAddStep(t)]_vars

\* An add of two chunks waits for the embedder, asked for their texts in
\* the order of the list (not the order of the ids).
C15_Witness ==
    /\ calls[1].op = "add_chunks" /\ calls[1].pc = "add_embed"
    /\ calls[1].request.texts = <<"t2", "t1">>
    /\ calls[1].embed_calls = 1

\* The score 1.0.
IsOne(score) == score.den # 0 /\ score.num = score.den

\* Two vectors of the same direction.
Parallel(a, b) == a[1] * b[2] = a[2] * b[1] /\ Dot(a, b) > 0

\* A candidate of the search that t's call is, whose stored embedding is
\* the query embedding the embedder has just returned.
RoundTrip(t, id) ==
    /\ SearchReturns(t)
    /\ calls[t].top_k >= 1
    /\ id \in Range(InsertionOrder(calls[t].doc_id))
    /\ Has(_embeddings, id)
    /\ Get(_embeddings, id) = calls'[t].query_embedding

\* C19 as stated: a search with the stored embedding of a chunk as query
\* embedding returns that chunk first, with score 1.0, whatever else the
\* index holds.
C19_RoundTripStep(t) ==
    \A id \in ChunkIds :
        RoundTrip(t, id) =>
            /\ calls'[t].result # <<>>
            /\ calls'[t].result[1].chunk.id = id
            /\ IsOne(calls'[t].result[1].score)

C19_RoundTripRanksFirst == [][\A t \in Tasks : C19_RoundTripStep(t)]_vars

\* C19, amended: when the stored embedding is not the zero vector the
\* first result has score 1.0, the chunk has score 1.0 where it appears,
\* and the first result is the chunk itself unless it is a candidate
\* whose embedding is parallel to the query embedding.
C19_AmendedStep(t) ==
    \A id \in ChunkIds :
        (RoundTrip(t, id) /\ calls'[t].query_embedding # <<0, 0>>) =>
            LET r == calls'[t].result
            IN  /\ r # <<>>
                /\ IsOne(r[1].score)
                /\ \A n \in 1..Len(r) :
                       r[n].chunk.id = id => IsOne(r[n].score)
                /\ r[1].chunk.id # id =>
                       Parallel(calls'[t].query_embedding,
                                Get(_embeddings, r[1].chunk.id))

C19_RoundTripTopScore == [][\A t \in Tasks : C19_AmendedStep(t)]_vars

\* The query embedding <<2, 0>> is the stored embedding of the second
\* result only: the first result, inserted earlier with the parallel
\* embedding <<1, 0>>, has score 1.0 as well and keeps its place.
C19_Witness ==
    /\ calls[1].op = "search" /\ calls[1].pc = "done"
    /\ calls[1].query_embedding = <<2, 0>>
    /\ Len(calls[1].result) = 2
    /\ Get(_embeddings, calls[1].result[1].chunk.id) = <<1, 0>>
    /\ Get(_embeddings, calls[1].result[2].chunk.id) = <<2, 0>>
    /\ IsOne(calls[1].result[1].score)
    /\ IsOne(calls[1].result[2].score)

\* The chunk inserted last came back first with score 1.0, ahead of a
\* chunk of lower score, for the query embedding <<2, 0>> it is stored
\* with.
C19_WitnessRankedFirst ==
    /\ calls[1].op = "search" /\ calls[1].pc = "done"
    /\ calls[1].query_embedding = <<2, 0>>
    /\ Len(calls[1].result) = 2
    /\ KeyList(_chunks) =
           <<calls[1].result[2].chunk.id, calls[1].result[1].chunk.id>>
    /\ Get(_embeddings, calls[1].result[1].chunk.id) = <<2, 0>>
    /\ IsOne(calls[1].result[1].score)
    /\ ~IsOne(calls[1].result[2].score)

(* ------------------------- claims: chunk_text ------------------------- *)

Blank(s) == Strip(s) = <<>>

\* Two consecutive returned chunks with source text between them that no
\* returned chunk covers: a blank window was dropped there.
DroppedWindowBetween(cs) ==
    \E i \in 1..(Len(cs) - 1) : cs[i + 1].start_char > cs[i].end_char

\* C1: a call with valid parameters on non-blank text (one that entered
\* the cursor loop) returns after finitely many iterations.
C1_ChunkTerminates == (pc = "while") ~> (pc = "returned")

\* C2: with chunk_size <= 0, overlap < 0 or overlap >= chunk_size the call
\* raises, whatever the text, and produces no chunks.
C2_InvalidParamsRaise ==
    (~ValidParams /\ pc # "call") => (pc = "raised" /\ chunks = <<>>)

\* C8: with valid parameters, a returned sequence is empty exactly when
\* the text is blank, and every returned chunk's text is trimmed and not
\* empty.
C8_EmptyIffBlank ==
    (ValidParams /\ pc = "returned") =>
        /\ (chunks = <<>>) <=> Blank(text)
        /\ \A i \in 1..Len(chunks) :
              /\ chunks[i].text # <<>>
              /\ Strip(chunks[i].text) = chunks[i].text

C8_Witness ==
    /\ ValidParams /\ pc = "returned"
    /\ ~Blank(text)
    /\ Len(chunks) >= 2
    /\ DroppedWindowBetween(chunks)

\* C9: in a returned sequence the chunk at list position i has index i
\* (counting from 0) and start_char never decreases from a chunk to the
\* next.
C9_IndexIsPosition ==
    (pc = "returned") =>
        \A i \in 1..Len(chunks) :
            /\ chunks[i].index = i - 1
            /\ i > 1 => chunks[i - 1].start_char <= chunks[i].start_char

C9_Witness ==
    /\ pc = "returned"
    /\ Len(chunks) >= 3
    /\ DroppedWindowBetween(chunks)

\* C10: every returned chunk has 0 <= start_char < end_char <= len(text)
\* and its text is the trimmed slice text[start_char:end_char].
C10_OffsetsInsideText ==
    (pc = "returned") =>
        \A i \in 1..Len(chunks) :
            /\ 0 <= chunks[i].start_char
            /\ chunks[i].start_char < chunks[i].end_char
            /\ chunks[i].end_char <= Len(text)
            /\ chunks[i].text =
                   Strip(Slice(text, chunks[i].start_char, chunks[i].end_char))

\* C25: two consecutive returned chunks share at most overlap characters
\* of the text: the later one starts at or after the earlier one's
\* end_char - overlap.
C25_OverlapAtMost ==
    (pc = "returned") =>
        \A i \in 2..Len(chunks) :
            chunks[i].start_char >= chunks[i - 1].end_char - overlap

\* Overlapping chunks after a dropped blank window: a chunk starts
\* exactly overlap characters before the end of the chunk before it.
C25_Witness ==
    /\ pc = "returned"
    /\ overlap >= 1
    /\ DroppedWindowBetween(chunks)
    /\ \E i \in 2..Len(chunks) :
          chunks[i].start_char = chunks[i - 1].end_char - overlap

\* C27: when the call returns, every non-whitespace character of the text
\* lies in [start_char, end_char) of some returned chunk.
C27_NonWhitespaceCovered ==
    (pc = "returned") =>
        \A n \in 0..(Len(text) - 1) :
            text[n + 1] \notin Whitespace =>
                \E i \in 1..Len(chunks) :
                    chunks[i].start_char <= n /\ n < chunks[i].end_char

\* Whitespace between two returned chunks that no chunk covers, in a text
\* that begins and ends with a non-whitespace character.
C27_Witness ==
    /\ pc = "returned"
    /\ Len(text) >= 3
    /\ text[1] \notin Whitespace
    /\ text[Len(text)] \notin Whitespace
    /\ DroppedWindowBetween(chunks)

\* C28: a non-blank text no longer than chunk_size comes back as exactly
\* one chunk, for every valid overlap; and no returned chunk's window
\* lies inside the window of the chunk before it.
C28_ShortTextOneChunk ==
    (ValidParams /\ pc = "returned") =>
        /\ (~Blank(text) /\ Len(text) <= chunk_size) => Len(chunks) = 1
        /\ \A i \in 2..Len(chunks) :
              ~(/\ chunks[i - 1].start_char <= chunks[i].start_char
                /\ chunks[i].end_char <= chunks[i - 1].end_char)

(* ----------------------- claims: chunk_by_pages ----------------------- *)

DistinctIds(cs) ==
    \A i, j \in 1..Len(cs) : i # j => cs[i].id # cs[j].id

\* C16: the ids of the chunks one chunk_text call returns are pairwise
\* distinct, and so are the ids of the chunks one chunk_by_pages call
\* returns, over all its pages (the hash taken as injective).
C16_IdsDistinct ==
    /\ pc = "returned" => DistinctIds(chunks)
    /\ pages_pc = "returned" => DistinctIds(all_chunks)

\* Chunks of two pages that start at the same offset came back.
C16_Witness ==
    /\ pages_pc = "returned"
    /\ \E i, j \in 1..Len(all_chunks) :
          /\ all_chunks[i].metadata.page # all_chunks[j].metadata.page
          /\ all_chunks[i].start_char = all_chunks[j].start_char
          /\ all_chunks[i].text = all_chunks[j].text

\* The id derived from the fields the chunk carries.
IdOfFields(c) == ChunkId(c.doc_id, c.index, c.start_char)

\* C17: every chunk chunk_text or chunk_by_pages returns carries the id
\* derived from its own doc_id, index and start_char.
C17_IdRecomputable ==
    /\ pc = "returned" =>
          \A i \in 1..Len(chunks) : chunks[i].id = IdOfFields(chunks[i])
    /\ pages_pc = "returned" =>
          \A i \in 1..Len(all_chunks) :
              all_chunks[i].id = IdOfFields(all_chunks[i])

\* C18: chunk_by_pages returns chunks of non-blank pages only, in page
\* order; metadata.page is the 1-based number of the page the chunk's
\* text was cut from; doc_id is the argument; index is the list position.
C18_PageChunks ==
    pages_pc = "returned" =>
        \A i \in 1..Len(all_chunks) :
            LET c == all_chunks[i]
                n == c.metadata.page
            IN  /\ n \in 1..Len(pages)
                /\ ~Blank(pages[n])
                /\ c.text = Strip(Slice(pages[n], c.start_char, c.end_char))
                /\ c.doc_id = pages_doc_id
                /\ c.index = i - 1
                /\ i > 1 => all_chunks[i - 1].metadata.page <= n

\* A blank page between two pages with chunks, the last one cut into
\* several chunks.
C18_Witness ==
    /\ pages_pc = "returned"
    /\ Len(pages) = 3
    /\ Blank(pages[2])
    /\ Len(all_chunks) >= 3
    /\ all_chunks[1].metadata.page = 1
    /\ all_chunks[Len(all_chunks) - 1].metadata.page = 3

(* -------------------- claims: _cosine_similarity ---------------------- *)

\* C20: the similarity is exactly 0 when one of the vectors is the zero
\* vector, and no division by zero happens; it is 0 as well for vectors
\* of non-zero magnitude whose dot product is zero.
C20_ZeroMagnitudeIsZero ==
    /\ cos_pc # "raised"
    /\ cos_pc = "returned" =>
          /\ cos_result.den # 0
          /\ (cos_a = <<0, 0>> \/ cos_b = <<0, 0>>) => cos_result.num = 0
          /\ cos_a[1] * cos_b[1] + cos_a[2] * cos_b[2] = 0 =>
                cos_result.num = 0

\* A call with a non-zero first vector and the zero vector as second
\* returned 0.
C20_Witness ==
    /\ cos_pc = "returned"
    /\ cos_a = <<1, 2>>
    /\ cos_b = <<0, 0>>
    /\ cos_result.num = 0

\* A call with two orthogonal, non-zero vectors returned 0.
C20_WitnessOrthogonal ==
    /\ cos_pc = "returned"
    /\ cos_a = <<1, 2>>
    /\ cos_b = <<-2, 1>>
    /\ cos_result.num = 0

(* ------------------ claims: DocumentParserRegistry -------------------- *)

\* The exception classes a handler for `exception` also catches: the class
\* and its bases.
ExceptionBases(exception) ==
    CASE exception = "FileNotFoundError" ->
             {"FileNotFoundError", "OSError", "Exception"}
      [] exception = "ValueError" -> {"ValueError", "Exception"}
      [] OTHER -> {exception, "Exception"}

\* The parser the fixed order PDF, DOCX, plaintext gives the path to.
InFixedOrder(file_path) ==
    IF PDFParser_supports(file_path) THEN "PDFParser"
    ELSE IF DocxParser_supports(file_path) THEN "DocxParser"
    ELSE IF TextParser_supports(file_path) THEN "TextParser"
    ELSE NoParser

\* C21: registry parse fails with the file-not-found error for every path
\* that does not exist, whatever its extension; fails with the
\* unsupported-type error for an existing file no parser supports; and
\* otherwise hands the path to the first of PDF, DOCX, plaintext whose
\* supports() accepts it.  Neither failure is caught as the other.
C21_RegistryParse ==
    (parse_pc \in {"returned", "raised"}) =>
        /\ ~parse_exists =>
              /\ parse_pc = "raised"
              /\ parse_result.exception = "FileNotFoundError"
        /\ (parse_exists /\ InFixedOrder(parse_path) = NoParser) =>
              /\ parse_pc = "raised"
              /\ parse_result.exception = "ValueError"
        /\ (parse_exists /\ InFixedOrder(parse_path) # NoParser) =>
              /\ parse_result.parser = InFixedOrder(parse_path)
              /\ parse_result.exception
                     \notin {"FileNotFoundError", "ValueError"}
        /\ "ValueError" \notin ExceptionBases("FileNotFoundError")
        /\ "FileNotFoundError" \notin ExceptionBases("ValueError")

\* A path that does not exist and that no parser supports was refused as
\* not found.
C21_Witness ==
    /\ parse_pc = "raised"
    /\ ~parse_exists
    /\ InFixedOrder(parse_path) = NoParser
    /\ parse_result.exception = "FileNotFoundError"

(* --------------------- claims: summarize_document --------------------- *)

\* The response to the line being handled was written.
Answered ==
    /\ main_pc = "read"
    /\ line_no > 0
    /\ stdout # <<>>
    /\ stdout[Len(stdout)].line = line_no

\* The line being handled is a call of the tool `name`.
IsCall(name) ==
    /\ line.json = "object"
    /\ line.method = "tools/call"
    /\ line.params.kind = "dict"
    /\ ToolName = name
    /\ Arguments.valid

\* The remote generation call of the line being handled failed.
RemoteFailed ==
    \E i \in 1..Len(log) :
        log[i].line = line_no /\ log[i].event = "chat" /\ ~log[i].ok

\* The first n '. '-separated sentences of t joined by '. ', with a final
\* '.': t up to its n-th '. ', or all of it, and a period.
LeadingSentences(t, n) ==
    LET periods == {i \in 1..(Len(t) - 1) : t[i] = "." /\ t[i + 1] = " "}
        upto(i) == Cardinality({j \in periods : j <= i})
        cut     == IF Cardinality(periods) >= n
                   THEN (CHOOSE i \in periods : upto(i) = n) - 1
                   ELSE Len(t)
    IN  SubSeq(t, 1, cut) \o <<".">>

\* C22: summarize_document answers with a summary whenever the document
\* parses; when the remote generation call fails the failure is not
\* surfaced, and the summary is the first N '. '-separated sentences of
\* the document's text joined by '. ' with a final '.', N being 2 for
\* brief, 10 for detailed, 5 for any other level.
C22_FallbackSummary ==
    (/\ line_no > 0
     /\ main_pc \in {"read", "crashed"}
     /\ IsCall("summarize_document")
     /\ Has(_parsed_cache, _doc_id(Arguments.file_path))) =>
        /\ Answered
        /\ stdout[Len(stdout)].kind = "result"
        /\ RemoteFailed =>
              stdout[Len(stdout)].body.summary =
                  LeadingSentences(
                      Get(_parsed_cache, _doc_id(Arguments.file_path)).text,
                      IF Arguments.detail_level = "brief" THEN 2
                      ELSE IF Arguments.detail_level = "detailed" THEN 10
                      ELSE 5)

(* ------------------------- claims: the tool layer --------------------- *)

\* The responses written for line n.
ResponsesTo(n) == {i \in 1..Len(stdout) : stdout[i].line = n}

\* The line being handled is a tools/call request.
ToolsCallLine == line.json = "object" /\ line.method = "tools/call"

\* The document of the line's file_path is in the cache.
Cached == Has(_parsed_cache, _doc_id(Arguments.file_path))

\* The handling of the tool call of the line being handled raised: the
\* params are no object, the tool is unknown, the arguments do not fit,
\* the file is missing, of no supported type or unreadable, the chunk
\* parameters are refused, or the embedder failed.
HandlingRaised ==
    \/ line.params.kind = "array"
    \/ ToolName \notin handlers
    \/ ~Arguments.valid
    \/ /\ ToolName \in {"extract_text", "get_metadata", "chunk_document",
                        "summarize_document"}
       /\ ~Cached
    \/ /\ ToolName = "chunk_document"
       /\ Cached
       /\ Strip(Get(_parsed_cache, _doc_id(Arguments.file_path)).text)
              # <<>>
       /\ ~(Arguments.chunk_size > 0 /\ Arguments.overlap >= 0
              /\ Arguments.overlap < Arguments.chunk_size)
    \/ /\ ToolName = "chunk_document"
       /\ Arguments.index_chunks
       /\ main_pc = "read"
       /\ stdout # <<>>
       /\ stdout[Len(stdout)].body.exception = "EmbeddingFailure"
    \/ /\ ToolName = "search_chunks"
       /\ calls[1].error # "none"

\* C23: a tools/call request whose handling raises gets exactly one
\* response, an error object with that request's id, after which the
\* server is back at reading lines; while the call is handled nothing is
\* written for it; and for an unknown tool name no handler is entered.
C23_FailedCallAnsweredOnce ==
    (line_no > 0 /\ ToolsCallLine) =>
        /\ main_pc # "crashed"
        /\ main_pc # "read" => ResponsesTo(line_no) = {}
        /\ (main_pc = "read" /\ HandlingRaised) =>
              /\ ResponsesTo(line_no) = {Len(stdout)}
              /\ stdout[Len(stdout)].kind = "error"
              /\ stdout[Len(stdout)].id = RequestId(line_no)
        /\ (line.params.kind = "array" \/ ToolName \notin handlers) =>
              \A i \in 1..Len(log) :
                  log[i].line = line_no => log[i].event # "handler"

\* An unknown tool name was answered, and a further line was read after.
C23_Witness ==
    /\ line_no > 1
    /\ \E i \in 1..Len(stdout) :
          /\ stdout[i].line = 1
          /\ stdout[i].kind = "error"
          /\ stdout[i].id = RequestId(1)
          /\ stdout[i].body.exception = "ValueError"
    /\ log = <<>>

\* C24: chunk_document called with index_chunks = false leaves the index
\* unchanged, in its three mappings and so in total_chunks and
\* list_documents, at every step from the call to its response; and the
\* total_chunks of its result is the number of chunk previews in it.
C24_NoIndexingLeavesIndex ==
    [][(/\ main_pc # "read"
        /\ IsCall("chunk_document")
        /\ ~Arguments.index_chunks) =>
           /\ _chunks' = _chunks
           /\ _embeddings' = _embeddings
           /\ _doc_chunks' = _doc_chunks
           /\ total_chunks' = total_chunks
           /\ list_documents' = list_documents
           /\ (main_pc' = "read" /\ stdout'[Len(stdout')].kind = "result") =>
                 stdout'[Len(stdout')].body.total_chunks =
                     Len(stdout'[Len(stdout')].body.chunks)]_vars

\* A call without indexing returned several chunks while the index held
\* the chunks of an earlier call.
C24_Witness ==
    /\ Answered
    /\ IsCall("chunk_document")
    /\ ~Arguments.index_chunks
    /\ stdout[Len(stdout)].kind = "result"
    /\ stdout[Len(stdout)].body.total_chunks > 1
    /\ Len(stdout[Len(stdout)].body.chunks) > 1
    /\ total_chunks > 0

\* The log entries of the tool calls on a path, of the parser calls on it
\* and of those that returned a document.
CallsOn(p) ==
    {i \in 1..Len(log) : log[i].event = "handler" /\ log[i].file_path = p}

ParsesOf(p) ==
    {i \in 1..Len(log) : log[i].event = "parser" /\ log[i].file_path = p}

SuccessesOf(p) == {i \in ParsesOf(p) : log[i].ok}

\* The call logged at i handed its path to the parser.
HandedToParser(i) ==
    /\ i < Len(log)
    /\ log[i + 1].event = "parser"
    /\ log[i + 1].line = log[i].line
    /\ log[i + 1].file_path = log[i].file_path

\* The document the first successful parse of p made.
FirstParsed(p) ==
    LET f == SetMin(SuccessesOf(p))
    IN  ParsedDocument(log[f].name, p, log[f].version)

\* C26: over the tool calls on one server, a path goes to the parser on
\* each call until a parse of it first succeeds and never afterwards; a
\* failed parse leaves nothing in the cache; and every call on the path
\* from the first success on answers from the first parse result (for
\* chunk_document at chunk_size 2 on the text file of v + 1 words: with
\* v + 1 chunks, v the version first parsed).
C26_ParsedOnceOnSuccess ==
    \A p \in ServerPaths :
        /\ \A i \in CallsOn(p) :
              HandedToParser(i) <=> ~(\E j \in SuccessesOf(p) : j < i)
        /\ \A k \in ParsesOf(p) : ~(\E j \in SuccessesOf(p) : j < k)
        /\ Has(_parsed_cache, _doc_id(p)) <=> SuccessesOf(p) # {}
        /\ SuccessesOf(p) # {} =>
              /\ Get(_parsed_cache, _doc_id(p)) = FirstParsed(p)
              /\ \A i \in CallsOn(p), r \in 1..Len(stdout) :
                    (/\ stdout[r].line = log[i].line
                     /\ stdout[r].kind = "result") =>
                        IF stdout[r].body.tool = "chunk_document"
                        THEN stdout[r].body.total_chunks =
                                 log[SetMin(SuccessesOf(p))].version + 1
                        ELSE stdout[r].body.doc = FirstParsed(p)

\* The text file was asked for while missing, parsed at its first
\* version on the next call, and served from that parse after the file
\* was replaced.
C26_Witness ==
    /\ Len(stdout) = 3
    /\ stdout[1].kind = "error"
    /\ stdout[1].body.exception = "FileNotFoundError"
    /\ stdout[2].kind = "result"
    /\ stdout[3].kind = "result"
    /\ stdout[3].body.tool = "extract_text"
    /\ stdout[3].body.doc = ParsedDocument("TextParser", TxtPath, 1)
    /\ disk[TxtPath] = 2
    /\ Cardinality(ParsesOf(TxtPath)) = 2

(* ------------------------ claims: the stdio loop ---------------------- *)

\* C29: every line read, whatever it holds, gets exactly one response
\* line, and no line ends the loop: main() never stops on an exception,
\* and once it is back at reading, each line read so far has one response.
C29_EveryLineAnsweredOnce ==
    /\ main_pc # "crashed"
    /\ main_pc = "read" =>
          \A n \in 1..line_no : Cardinality(ResponsesTo(n)) = 1

\* C30: an error response carries the id of the line that caused it, or
\* null when that line could not be parsed as JSON; never the id of an
\* earlier request.
C30_ErrorCarriesOwnId ==
    \A i \in 1..Len(stdout) :
        stdout[i].kind = "error" =>
            stdout[i].id =
                IF stdout[i].body.exception = "JSONDecodeError"
                THEN "null"
                ELSE RequestId(stdout[i].line)

=============================================================================
